---- MODULE Spec2Model ----
(***************************************************************************)
(* A model of the collection-and-selection pipeline of ai_news_collector:  *)
(*   - AdvancedScraper (advanced_scraper.py): rate limiter, cache and its  *)
(*     expiry, per-source collection, concurrency cap, merge and           *)
(*     de-duplication, content extraction, link scan and cache writes;     *)
(*   - AINewsSystem (main.py): scoring and selection of the best articles  *)
(*     and the daily publication budget;                                   *)
(*   - ArticleProcessor (article_processor.py): summary and commentary     *)
(*     with their fallbacks, batch processing;                             *)
(*   - the entry points of daily_publisher.py, main.py and scheduler.py;   *)
(*   - NewsArticle and AINewsCollector (news_collector.py): the duplicate  *)
(*     tracker;                                                            *)
(*   - the title keys of the three de-duplication loops                    *)
(*     (advanced_scraper.py, integrated_collector.py,                      *)
(*     scraping_x_collector.py);                                           *)
(*   - EnhancedXCollector.collect_x_posts (enhanced_x_collector.py) and    *)
(*     IntegratedAICollector.collect_all_articles: methods that raise;     *)
(*   - ScheduledAINewsSystem (scheduler.py): the article history and the   *)
(*     two scheduled jobs.                                                 *)
(* Each part has a specification of its own (SpecDedup, SpecSelect,        *)
(* SpecBudget, SpecRate, SpecCache, SpecExpiry, SpecScore, SpecSem,        *)
(* SpecSemFair, SpecProc, SpecEntry, SpecTrack, SpecExtract, SpecPrefix,   *)
(* SpecLink, SpecWrite, SpecMeth, SpecHist); the variables of the other    *)
(* parts are held at their idle values.                                    *)
(***************************************************************************)
EXTENDS Integers, Sequences, FiniteSets, TLC

VARIABLES
    \* ---- merge and de-duplication (collect_all_articles) ----
    results,          \* per source task, the list _collect_from_source returned
    returned,         \* the source tasks that have returned
    all_articles,     \* the merged list handed to _remove_duplicates
    unique_articles,  \* what _remove_duplicates returned
    final_articles,   \* what collect_all_articles returned
    kept,             \* history: the positions of all_articles that were kept
    seen_urls,        \* seen_urls when the scan ended
    seen_titles,      \* seen_titles when the scan ended
    max_total,        \* the max_total_articles argument of the call
    dpc,              \* "collecting" until the gather is over, then "returned"
    entry_page,       \* per source task: "none", then "ok" or "failed"
    found,            \* per source task: the articles its entry page leads to
    \* ---- selection (AINewsSystem.select_best_articles) ----
    articles,         \* the candidates, in discovery order
    max_count,        \* the max_count argument of the call
    best_articles,    \* what select_best_articles returned
    best_positions,   \* history: the positions of articles that were returned
    spc,              \* "discovering", then "selected"
    \* ---- daily budget (AINewsSystem.run_daily_collection) ----
    today,              \* the calendar date datetime.now() gives
    daily_posts,        \* the daily_posts_<date>.json files: records [date, count]
    max_posts_per_day,  \* AINewsSystem.max_posts_per_day; 0 before construction
    rpc,                \* per run: where it stands in run_daily_collection
    today_count,        \* per run: its local today_count
    n_best,             \* per run: len(best_articles)
    n_processed,        \* per run: len(processed_articles)
    post_result,        \* per run: what create_post returned
    collected,          \* history, per run: collect_all_sources was called
    selected,           \* history, per run: select_best_articles was called
    invoked,            \* history, per run: create_post was called
    start_day,          \* history, per run: the date at which it started
    runs_started,       \* history: the number of runs started
    overlap,            \* history: a run started while another was under way
    published,          \* history, per date: the posts create_post confirmed
    short,              \* history, per run: fewer than 3 articles were left
    summarized,         \* history, per run: processor.process_article was called
    \* ---- rate limiter (AdvancedScraper._wait_for_rate_limit) ----
    now,              \* time.time(), in ticks
    last_access,      \* self.last_access; 0 where the key is absent
    tpc,              \* per task: where it stands
    wake_at,          \* per task: when its asyncio.sleep ends
    prev_fetch,       \* history, per source: start of the fetch before the last
    last_fetch,       \* history, per source: start of the last fetch
    n_fetches,        \* history, per source: the number of fetches started
    \* ---- cache (cache lookup, then _process_article) ----
    clock,            \* datetime.now(), in hours
    cache,            \* the cache files: per URL, none or [mtime, payload]
    epc,              \* per execution: "idle", "task", "done"
    eurl,             \* per execution: its article URL
    eresult,          \* per execution: the article it yielded, or none
    fetched,          \* history, per execution: it fetched the URL
    outcome,          \* history, per execution: "hit", "saved", "unsaved", "rejected"
    look_time,        \* history, per execution: clock at its cache lookup
    last_writer,      \* history, per URL: the execution that last wrote it
    last_written,     \* history, per URL: clock at that write
    prior_writer,     \* history, per execution: last_writer at its lookup
    prior_written,    \* history, per execution: last_written at its lookup
    \* ---- scoring (the score of select_best_articles) ----
    art_a,            \* the article scored first
    art_b,            \* the article scored second: art_a with one field changed
    score_a,          \* the score of art_a
    score_b,          \* the score of art_b
    scpc,             \* "none", "first", "longer", "trusted"
    \* ---- concurrency cap (collect_all_articles, semaphore and connector) ----
    cpc,              \* collect_all_articles: "idle", "gathering", "returned"
    max_concurrent,   \* self.max_concurrent; 0 before construction
    n_sources,        \* len(self.site_configs)
    src_pc,           \* per source task: where it stands
    src_how,          \* history, per source task: how its entry read ended
    n_waiting,        \* per source: _process_article calls waiting for a connection
    n_reading,        \* per source: _process_article calls reading from the network
    n_ended,          \* history, per source: _process_article calls that have ended
    permits,          \* semaphore._value: the free permits
    connections,      \* the connections of the TCPConnector in use
    \* ---- ArticleProcessor.process_articles_batch ----
    articles_in,      \* the batch given to process_articles_batch
    bpc,              \* "idle", "loop" or "returned"
    bpos,             \* number of articles of the batch handled so far
    processed_articles,\* the list the batch returns
    responses,        \* per handled article, how its two model calls ended
    \* ---- entry points: daily_publisher.py, main.py, scheduler.py ----
    entry_pt,         \* the script that was started; "none" before
    argv,             \* sys.argv[1:]
    api_key,          \* whether OPENAI_API_KEY is set
    stage,            \* how far the entry point has got
    construction,     \* "none", "ok" or "aborted"
    run_mode,         \* "none", "test" or "production"
    requests,         \* the kinds of network request issued so far
    create_post_calls,\* calls of WordPressConnector.create_post
    n_articles,       \* articles the entry point carries
    \* ---- AINewsCollector: the duplicate tracker ----
    collector_built,  \* whether an AINewsCollector has been constructed
    collected_hashes, \* self.collected_hashes
    tracker_file,     \* collected_articles.json: whether it exists and its hashes
    loaded_hashes,    \* history: the hashes the collector loaded at construction
    added,            \* history: the (title, url, source) triples given to add_to_tracker
    checked,          \* history: the article of the last is_duplicate call, if any
    was_duplicate,    \* history: what the last is_duplicate call returned
    \* ---- content extraction (_extract_article_content) ----
    scraper,          \* "none", "advanced" or "simple"
    primary_nodes,    \* per primary rule, the text lengths of the elements it selects
    generic_nodes,    \* per generic rule, the text lengths of the elements it selects
    content_parts,    \* the parts returned, each named by its rule and its element
    xpc,              \* "idle", "page" or "done"
    \* ---- the three deduplicators and their title keys ----
    dd_variant,       \* "none", "advanced", "integrated" or "x_posts"
    dd_posts,         \* the list given to the deduplicator
    dd_unique,        \* the list it returns
    dd_pc,            \* "idle", "given" or "done"
    \* ---- _collect_from_source: links, cache hits and article tasks ----
    lk_pc,            \* "idle", "scanned", "gathered" or "merged"
    lk_reg,           \* the place of the source in site_configs, 1 or 2
    lk_max,           \* the source's max_articles
    lk_links,         \* the links of the entry page, by kind, in page order
    lk_articles,      \* the articles list of _collect_from_source, by link index
    lk_tasks,         \* the links for which a _process_article task was created
    lk_results,       \* per task, "pending", "article" or "none"
    lk_other,         \* the other source's task: whether it has returned, and its list
    lk_merged,        \* all_articles after the merge
    \* ---- _process_article: what is written to the cache ----
    wr_pc,            \* "idle", "task" or "done"
    wr_url,           \* the URL of the link
    wr_fetched,       \* whether the page of the article arrived
    wr_len,           \* len(content) after extraction
    wr_files,         \* per URL, the cache file: "absent", "whole" or "partial", and its content length
    wr_before,        \* history: the cache files when the task started
    wr_save,          \* history: how _save_to_cache ended, "none" if not called
    wr_candidate,     \* whether the task returned an article
    wr_count,         \* tasks run so far
    \* ---- collect_x_posts and IntegratedAICollector.collect_all_articles ----
    xm_pc,            \* "idle", "loop", "done" or "raised"
    xm_kind,          \* "none", "x_posts" or "integrated"
    xm_max,           \* max_posts; 0 where there is none
    xm_next,          \* the place of the next collection method
    xm_all_posts,     \* all_posts / all_articles so far
    xm_invoked,       \* history: the methods invoked, in order
    xm_got,           \* history, per method: "none", "raised" or "returned"
    xm_lists,         \* history, per method: the list it returned
    xm_final,         \* the list the call returns
    \* ---- ScheduledAINewsSystem: history file and the two scheduled jobs ----
    hs_pc,            \* "off", "collection" (09:00 due), "workflow" (10:00 due) or "midnight"
    hs_enabled,       \* config duplicate_prevention.enabled
    hs_days,          \* config duplicate_prevention.history_days
    hs_day,           \* the day of the schedule
    hs_file,          \* article_history.json: state and entries
    hs_in,            \* history: new_articles of the last call
    hs_out,           \* history: the list the last call returned
    hs_at,            \* history: the time of the last call, in hours
    hs_prev,          \* history: articles returned by the calls before the last, with time
    hs_last_failure,  \* history: time of the last call whose read or write failed
    hs_accepted,      \* history: articles the 09:00 job of the day returned and recorded
    hs_posted,        \* history: articles the 10:00 workflow of the day handed to posting
    hs_jobs           \* the scheduled jobs run so far

dedupVars == <<results, returned, all_articles, unique_articles,
               final_articles, kept, seen_urls, seen_titles, max_total, dpc,
               entry_page, found>>

selectVars == <<articles, max_count, best_articles, best_positions, spc>>

budgetVars == <<today, daily_posts, max_posts_per_day, rpc, today_count,
                n_best, n_processed, post_result, collected, selected, invoked,
                start_day, runs_started, overlap, published, short,
                summarized>>

rateVars == <<now, last_access, tpc, wake_at, prev_fetch, last_fetch,
              n_fetches>>

cacheVars == <<clock, cache, epc, eurl, eresult, fetched, outcome, look_time,
               last_writer, last_written, prior_writer, prior_written>>

scoreVars == <<art_a, art_b, score_a, score_b, scpc>>

semVars == <<cpc, max_concurrent, n_sources, src_pc, src_how, n_waiting,
             n_reading, n_ended, permits, connections>>

procVars == <<articles_in, bpc, bpos, processed_articles, responses>>

entryVars == <<entry_pt, argv, api_key, stage, construction, run_mode,
               requests, create_post_calls, n_articles>>

trackVars == <<collector_built, collected_hashes, tracker_file,
               loaded_hashes, added, checked, was_duplicate>>

extractVars == <<scraper, primary_nodes, generic_nodes, content_parts, xpc>>

prefixVars == <<dd_variant, dd_posts, dd_unique, dd_pc>>

linkVars == <<lk_pc, lk_reg, lk_max, lk_links, lk_articles, lk_tasks,
              lk_results, lk_other, lk_merged>>

writeVars == <<wr_pc, wr_url, wr_fetched, wr_len, wr_files, wr_before,
               wr_save, wr_candidate, wr_count>>

methVars == <<xm_pc, xm_kind, xm_max, xm_next, xm_all_posts, xm_invoked,
              xm_got, xm_lists, xm_final>>

histVars == <<hs_pc, hs_enabled, hs_days, hs_day, hs_file, hs_in, hs_out,
              hs_at, hs_prev, hs_last_failure, hs_accepted, hs_posted,
             hs_jobs>>

vars == <<dedupVars, selectVars, budgetVars, rateVars, cacheVars, scoreVars,
          semVars, procVars, entryVars, trackVars, extractVars, prefixVars,
          linkVars, writeVars, methVars, histVars>>

exceptDedup == <<selectVars, budgetVars, rateVars, cacheVars, scoreVars,
                 semVars, procVars, entryVars, trackVars, extractVars,
                 prefixVars, linkVars, writeVars, methVars, histVars>>

exceptSelect == <<dedupVars, budgetVars, rateVars, cacheVars, scoreVars,
                  semVars, procVars, entryVars, trackVars, extractVars,
                  prefixVars, linkVars, writeVars, methVars, histVars>>

exceptBudget == <<dedupVars, selectVars, rateVars, cacheVars, scoreVars,
                  semVars, procVars, entryVars, trackVars, extractVars,
                  prefixVars, linkVars, writeVars, methVars, histVars>>

exceptRate == <<dedupVars, selectVars, budgetVars, cacheVars, scoreVars,
                semVars, procVars, entryVars, trackVars, extractVars,
                prefixVars, linkVars, writeVars, methVars, histVars>>

exceptCache == <<dedupVars, selectVars, budgetVars, rateVars, scoreVars,
                 semVars, procVars, entryVars, trackVars, extractVars,
                 prefixVars, linkVars, writeVars, methVars, histVars>>

exceptScore == <<dedupVars, selectVars, budgetVars, rateVars, cacheVars,
                 semVars, procVars, entryVars, trackVars, extractVars,
                 prefixVars, linkVars, writeVars, methVars, histVars>>

exceptSem == <<dedupVars, selectVars, budgetVars, rateVars, cacheVars,
               scoreVars, procVars, entryVars, trackVars, extractVars,
               prefixVars, linkVars, writeVars, methVars, histVars>>

exceptProc == <<dedupVars, selectVars, budgetVars, rateVars, cacheVars,
                scoreVars, semVars, entryVars, trackVars, extractVars,
                prefixVars, linkVars, writeVars, methVars, histVars>>

exceptEntry == <<dedupVars, selectVars, budgetVars, rateVars, cacheVars,
                 scoreVars, semVars, procVars, trackVars, extractVars,
                 prefixVars, linkVars, writeVars, methVars, histVars>>

exceptTrack == <<dedupVars, selectVars, budgetVars, rateVars, cacheVars,
                 scoreVars, semVars, procVars, entryVars, extractVars,
                 prefixVars, linkVars, writeVars, methVars, histVars>>

exceptExtract == <<dedupVars, selectVars, budgetVars, rateVars, cacheVars,
                   scoreVars, semVars, procVars, entryVars, trackVars,
                   prefixVars, linkVars, writeVars, methVars, histVars>>

exceptPrefix == <<dedupVars, selectVars, budgetVars, rateVars, cacheVars,
                  scoreVars, semVars, procVars, entryVars, trackVars,
                  extractVars, linkVars, writeVars, methVars, histVars>>

exceptLink == <<dedupVars, selectVars, budgetVars, rateVars, cacheVars,
                scoreVars, semVars, procVars, entryVars, trackVars,
                extractVars, prefixVars, writeVars, methVars, histVars>>

exceptWrite == <<dedupVars, selectVars, budgetVars, rateVars, cacheVars,
                 scoreVars, semVars, procVars, entryVars, trackVars,
                 extractVars, prefixVars, linkVars, methVars, histVars>>

exceptMeth == <<dedupVars, selectVars, budgetVars, rateVars, cacheVars,
                scoreVars, semVars, procVars, entryVars, trackVars,
                extractVars, prefixVars, linkVars, writeVars, histVars>>

exceptHist == <<dedupVars, selectVars, budgetVars, rateVars, cacheVars,
                scoreVars, semVars, procVars, entryVars, trackVars,
                extractVars, prefixVars, linkVars, writeVars, methVars>>

(***************************************************************************)
(* Sequences                                                               *)
(***************************************************************************)
SeqsUpTo(S, n) == UNION {[1..k -> S] : k \in 0..n}

Take(s, n) == SubSeq(s, 1, IF n < Len(s) THEN n ELSE Len(s))

Range(s) == {s[i] : i \in DOMAIN s}

(***************************************************************************)
(* Text: a title is a sequence of characters.                              *)
(***************************************************************************)
Lower(c) ==
    CASE c = "A" -> "a"
      [] c = "I" -> "i"
      [] c = "G" -> "g"
      [] c = "P" -> "p"
      [] c = "X" -> "x"
      [] OTHER   -> c

LowerStr(t) == [i \in DOMAIN t |-> Lower(t[i])]

RECURSIVE LStrip(_)
LStrip(t) == IF t # <<>> /\ Head(t) = " " THEN LStrip(Tail(t)) ELSE t

RECURSIVE RStrip(_)
RStrip(t) ==
    IF t # <<>> /\ t[Len(t)] = " " THEN RStrip(SubSeq(t, 1, Len(t) - 1)) ELSE t

Strip(t) == RStrip(LStrip(t))

(***************************************************************************)
(* De-duplication: AdvancedScraper._remove_duplicates                      *)
(***************************************************************************)
Sources == <<"itmedia", "gigazine">>     \* site_configs, in registration order

SourceIds == DOMAIN Sources

URLs == {"u1", "u2"}

Titles == { <<"A","I">>, <<"a","i">>, <<"A","I"," ","X">>, <<"G","P">> }

MaxArticles == 3

MaxTotalArticles == 2

ArticlesOf(i) == [title : Titles, url : URLs, source : {Sources[i]}]

\* title_key = article.title.lower().strip(): the whole title, case-folded
TitleKey(title) == Strip(LowerStr(title))

\* a variant that keeps a candidate when either key is new
IsUnseenEither(url, title_key, seen_urls_, seen_titles_) ==
    url \notin seen_urls_ \/ title_key \notin seen_titles_

\* the test of line 391
IsUnseen(url, title_key, seen_urls_, seen_titles_) ==
    url \notin seen_urls_ /\ title_key \notin seen_titles_

\* a variant of the loop in which a rejected candidate marks its keys too
RECURSIVE DedupScanMarkAll(_, _)
DedupScanMarkAll(arts, n) ==
    IF n = 0
    THEN [seen_urls |-> {}, seen_titles |-> {}, unique_articles |-> <<>>,
          kept |-> <<>>]
    ELSE LET st        == DedupScanMarkAll(arts, n - 1)
             article   == arts[n]
             title_key == TitleKey(article.title)
             marked    == [st EXCEPT
                              !.seen_urls = @ \cup {article.url},
                              !.seen_titles = @ \cup {title_key}]
         IN  IF article.url \notin st.seen_urls /\ title_key \notin st.seen_titles
             THEN [marked EXCEPT
                      !.unique_articles = Append(@, article),
                      !.kept = Append(@, n)]
             ELSE marked

\* the loop of _remove_duplicates after its first n iterations
RECURSIVE DedupScan(_, _)
DedupScan(arts, n) ==
    IF n = 0
    THEN [seen_urls |-> {}, seen_titles |-> {}, unique_articles |-> <<>>,
          kept |-> <<>>]
    ELSE LET st        == DedupScan(arts, n - 1)
             article   == arts[n]
             title_key == TitleKey(article.title)
         IN  IF IsUnseen(article.url, title_key, st.seen_urls, st.seen_titles)
             THEN [seen_urls       |-> st.seen_urls \cup {article.url},
                   seen_titles     |-> st.seen_titles \cup {title_key},
                   unique_articles |-> Append(st.unique_articles, article),
                   kept            |-> Append(st.kept, n)]
             ELSE st

RemoveDuplicates(arts) == DedupScan(arts, Len(arts))

\* a variant that stops at the first task that returned nothing
RECURSIVE MergeResultsUntilEmpty(_, _)
MergeResultsUntilEmpty(res, n) ==
    IF n = 0 THEN <<>>
    ELSE IF \E k \in 1..(n - 1) : res[k] = <<>>
         THEN MergeResultsUntilEmpty(res, n - 1)
         ELSE MergeResultsUntilEmpty(res, n - 1) \o res[n]

\* a variant that prepends each later task's list
RECURSIVE MergeResultsReversed(_, _)
MergeResultsReversed(res, n) ==
    IF n = 0 THEN <<>> ELSE res[n] \o MergeResultsReversed(res, n - 1)

\* results of the gather, concatenated in task order (lines 366-368)
RECURSIVE MergeResults(_, _)
MergeResults(res, n) ==
    IF n = 0 THEN <<>> ELSE MergeResults(res, n - 1) \o res[n]

DedupInit ==
    /\ results = [i \in SourceIds |-> <<>>]
    /\ returned = {}
    /\ all_articles = <<>>
    /\ unique_articles = <<>>
    /\ final_articles = <<>>
    /\ kept = <<>>
    /\ seen_urls = {}
    /\ seen_titles = {}
    /\ max_total = 0
    /\ dpc = "collecting"
    /\ entry_page = [i \in SourceIds |-> "none"]
    /\ found = [i \in SourceIds |-> <<>>]

\* how _get_page_content may end for an entry page (lines 154-167): the
\* parsed page, or None after a timeout, a status other than 200 or another
\* error
EntryOutcomes == {"ok", "timeout", "status", "error"}

\* _collect_from_source, lines 220-223 and 293-298: without the entry page
\* the empty list is returned, else the articles the page leads to
CollectFromSource(soup, arts) == IF soup = "ok" THEN arts ELSE <<>>

TotalLen(res) == Len(MergeResults(res, Len(Sources)))

\* one source task returns its list; tasks complete in any order
SourceReturns(i, soup) ==
    /\ dpc = "collecting"
    /\ i \notin returned
    /\ \E l \in SeqsUpTo(ArticlesOf(i), MaxArticles - TotalLen(found)) :
          /\ found' = [found EXCEPT ![i] = l]
          /\ results' = [results EXCEPT ![i] = CollectFromSource(soup, l)]
    /\ entry_page' = [entry_page EXCEPT ![i] =
                         IF soup = "ok" THEN "ok" ELSE "failed"]
    /\ returned' = returned \cup {i}
    /\ UNCHANGED <<all_articles, unique_articles, final_articles, kept,
                   seen_urls, seen_titles, max_total, dpc>>
    /\ UNCHANGED exceptDedup

\* collect_all_articles once the gather is over: merge, de-duplicate, cut
CollectAllArticles ==
    /\ dpc = "collecting"
    /\ returned = SourceIds
    /\ \E m \in 1..MaxTotalArticles :
          LET merged == MergeResults(results, Len(Sources))
              dedup  == RemoveDuplicates(merged)
          IN  /\ max_total' = m
              /\ all_articles' = merged
              /\ unique_articles' = dedup.unique_articles
              /\ kept' = dedup.kept
              /\ seen_urls' = dedup.seen_urls
              /\ seen_titles' = dedup.seen_titles
              /\ final_articles' = Take(dedup.unique_articles, m)
    /\ dpc' = "returned"
    /\ UNCHANGED <<results, returned, entry_page, found>>
    /\ UNCHANGED exceptDedup

NextDedup ==
    \/ \E i \in SourceIds : \E soup \in EntryOutcomes :
          SourceReturns(i, soup)
    \/ CollectAllArticles

(***************************************************************************)
(* Selection: AINewsSystem.select_best_articles                            *)
(***************************************************************************)
MaxCandidates == 5

MaxCount == 3

\* lines 80-84; the four Japanese keywords are written in Latin letters
important_keywords ==
    {"ChatGPT", "OpenAI", "Google", "Meta", "Apple", "Claude", "Anthropic",
     "Gemini", "seisei AI", "LLM", "kikai gakushu", "dipu raningu",
     "jinko chino"}

trusted_sources ==
    {"itmedia", "gigazine", "techcrunch", "wired", "theverge", "arstechnica",
     "venturebeat"}

\* article.source.lower(), on the source names of the model
SourceLower(source) ==
    CASE source = "ITmedia"  -> "itmedia"
      [] source = "GIGAZINE" -> "gigazine"
      [] OTHER               -> source

\* A candidate: the length of its title and of its content, the important
\* keywords that occur (case-folded) in its title or in the first 200
\* characters of its content, and its source.
Candidates ==
    { [title_len |-> 40, content_len |-> 120, keywords |-> {},
       source |-> "blog"],
      [title_len |-> 15, content_len |-> 350, keywords |-> {},
       source |-> "blog"],
      [title_len |-> 15, content_len |-> 120, keywords |-> {},
       source |-> "ITmedia"],
      [title_len |-> 90, content_len |-> 600, keywords |-> {"ChatGPT"},
       source |-> "blog"],
      [title_len |-> 15, content_len |-> 200, keywords |-> {},
       source |-> "blog"] }

\* a variant that gives a content of more than 500 characters the points of a
\* title of more than 80
ScoreLongPenalised(article) ==
    LET title_score ==
            IF 20 <= article.title_len /\ article.title_len <= 80 THEN 2
            ELSE IF article.title_len > 80 THEN 1 ELSE 0
        content_score ==
            IF 150 < article.content_len /\ article.content_len <= 500 THEN 2
            ELSE IF article.content_len > 500 THEN 1 ELSE 0
        keyword_count == Cardinality(article.keywords \cap important_keywords)
        source_score ==
            IF SourceLower(article.source) \in trusted_sources THEN 2 ELSE 0
    IN  title_score + content_score + keyword_count + source_score

\* lines 61-94
Score(article) ==
    LET title_score ==
            IF 20 <= article.title_len /\ article.title_len <= 80 THEN 2
            ELSE IF article.title_len > 80 THEN 1 ELSE 0
        content_score ==
            IF article.content_len > 500 THEN 3
            ELSE IF article.content_len > 300 THEN 2
            ELSE IF article.content_len > 150 THEN 1 ELSE 0
        keyword_count == Cardinality(article.keywords \cap important_keywords)
        source_score ==
            IF SourceLower(article.source) \in trusted_sources THEN 2 ELSE 0
    IN  title_score + content_score + keyword_count + source_score

\* a variant that puts an entry before the entries of equal score
RECURSIVE InsertBeforeTies(_, _)
InsertBeforeTies(sorted, entry) ==
    IF sorted = <<>> THEN <<entry>>
    ELSE IF Head(sorted).score > entry.score
         THEN <<Head(sorted)>> \o InsertBeforeTies(Tail(sorted), entry)
         ELSE <<entry>> \o sorted

\* entry put into a list sorted by descending score, behind the entries of
\* equal score: list.sort(key=score, reverse=True) is stable
RECURSIVE InsertByScore(_, _)
InsertByScore(sorted, entry) ==
    IF sorted = <<>> THEN <<entry>>
    ELSE IF Head(sorted).score >= entry.score
         THEN <<Head(sorted)>> \o InsertByScore(Tail(sorted), entry)
         ELSE <<entry>> \o sorted

\* scored_articles after the sort of line 99; an entry is the tuple
\* (score, article), with the article's position as the object's identity
RECURSIVE SortedByScore(_, _)
SortedByScore(arts, n) ==
    IF n = 0 THEN <<>>
    ELSE InsertByScore(SortedByScore(arts, n - 1),
                       [score |-> Score(arts[n]), article |-> arts[n],
                        position |-> n])

SelectBestArticles(arts, count) ==
    IF Len(arts) <= count
    THEN [articles |-> arts, positions |-> [n \in DOMAIN arts |-> n]]
    ELSE LET top == Take(SortedByScore(arts, Len(arts)), count)
         IN  [articles  |-> [k \in DOMAIN top |-> top[k].article],
              positions |-> [k \in DOMAIN top |-> top[k].position]]

SelectInit ==
    /\ articles = <<>>
    /\ max_count = 0
    /\ best_articles = <<>>
    /\ best_positions = <<>>
    /\ spc = "discovering"

\* one more candidate is discovered
Discover(a) ==
    /\ spc = "discovering"
    /\ Len(articles) < MaxCandidates
    /\ articles' = Append(articles, a)
    /\ UNCHANGED <<max_count, best_articles, best_positions, spc>>
    /\ UNCHANGED exceptSelect

\* the call select_best_articles(articles, count)
SelectBest(count) ==
    /\ spc = "discovering"
    /\ LET best == SelectBestArticles(articles, count)
       IN  /\ best_articles' = best.articles
           /\ best_positions' = best.positions
    /\ max_count' = count
    /\ spc' = "selected"
    /\ UNCHANGED articles
    /\ UNCHANGED exceptSelect

NextSelect ==
    \/ \E a \in Candidates : Discover(a)
    \/ \E count \in 1..MaxCount : SelectBest(count)

(***************************************************************************)
(* Daily budget: AINewsSystem.run_daily_collection                         *)
(***************************************************************************)
Runs == {"r1", "r2"}          \* two executions may be under way at once

MaxDays == 2

MaxRuns == 3

MaxPostsPerDay == 2

MaxCollected == 6

articles_per_post == 5

MinArticles == 3

Dates == 1..MaxDays

\* a variant that finds no count in the file
LoadNoCount(files, d) == 0

\* load_today_posts_count: data.get('count', 0) of the file of date d, else 0
LoadTodayPostsCount(files, d) ==
    IF \E f \in files : f.date = d
    THEN (CHOOSE f \in files : f.date = d).count
    ELSE 0

\* save_today_posts_count(count): the file of date d is written anew
SaveTodayPostsCount(files, d, count) ==
    {f \in files : f.date # d} \cup {[date |-> d, count |-> count]}

\* a variant of the test of line 408 that lets a run pass at the limit
LimitExceeded(count, limit) == count > limit

\* the test of line 408
LimitReached(count, limit) == count >= limit

\* the count run_daily_collection hands to save_today_posts_count (line 482)
CountToSave(count_read) == 1

\* a variant of the test of line 430 that accepts any non-empty selection
TooFewNone(n) == n < 1

\* the test of line 430
TooFew(n) == n < MinArticles

Active(r) == rpc[r] \in {"collecting", "processing", "posting"}

BudgetInit ==
    /\ today = 1
    /\ daily_posts = {}
    /\ max_posts_per_day = 0
    /\ rpc = [r \in Runs |-> "idle"]
    /\ today_count = [r \in Runs |-> 0]
    /\ n_best = [r \in Runs |-> 0]
    /\ n_processed = [r \in Runs |-> 0]
    /\ post_result = [r \in Runs |-> "none"]
    /\ collected = [r \in Runs |-> FALSE]
    /\ selected = [r \in Runs |-> FALSE]
    /\ invoked = [r \in Runs |-> FALSE]
    /\ start_day = [r \in Runs |-> 0]
    /\ runs_started = 0
    /\ overlap = FALSE
    /\ published = [d \in Dates |-> 0]
    /\ short = [r \in Runs |-> FALSE]
    /\ summarized = [r \in Runs |-> FALSE]

\* AINewsSystem.__init__: the systems are built with one max_posts_per_day
Construct(limit) ==
    /\ max_posts_per_day = 0
    /\ max_posts_per_day' = limit
    /\ UNCHANGED <<today, daily_posts, rpc, today_count, n_best, n_processed,
                   post_result, collected, selected, invoked, start_day,
                   runs_started, overlap, published, short, summarized>>
    /\ UNCHANGED exceptBudget

\* midnight passes
Midnight ==
    /\ max_posts_per_day > 0
    /\ today < MaxDays
    /\ today' = today + 1
    /\ UNCHANGED <<daily_posts, max_posts_per_day, rpc, today_count, n_best,
                   n_processed, post_result, collected, selected, invoked,
                   start_day, runs_started, overlap, published, short,
                   summarized>>
    /\ UNCHANGED exceptBudget

\* lines 403-413: the run reads today's count and returns if the limit is
\* reached
StartRun(r) ==
    /\ max_posts_per_day > 0
    /\ ~Active(r)
    /\ runs_started < MaxRuns
    /\ LET count == LoadTodayPostsCount(daily_posts, today)
       IN  /\ today_count' = [today_count EXCEPT ![r] = count]
           /\ rpc' = [rpc EXCEPT ![r] =
                         IF LimitReached(count, max_posts_per_day)
                         THEN "done" ELSE "collecting"]
    /\ n_best' = [n_best EXCEPT ![r] = 0]
    /\ n_processed' = [n_processed EXCEPT ![r] = 0]
    /\ post_result' = [post_result EXCEPT ![r] = "none"]
    /\ collected' = [collected EXCEPT ![r] = FALSE]
    /\ selected' = [selected EXCEPT ![r] = FALSE]
    /\ invoked' = [invoked EXCEPT ![r] = FALSE]
    /\ short' = [short EXCEPT ![r] = FALSE]
    /\ summarized' = [summarized EXCEPT ![r] = FALSE]
    /\ start_day' = [start_day EXCEPT ![r] = today]
    /\ runs_started' = runs_started + 1
    /\ overlap' = (overlap \/ \E o \in Runs \ {r} : Active(o))
    /\ UNCHANGED <<today, daily_posts, max_posts_per_day, published>>
    /\ UNCHANGED exceptBudget

\* lines 415-432 with a collector that has collect_all_sources (it returns a
\* list and never raises): it returns n articles; none ends the run; the best
\* articles_per_post are selected; fewer than 3 end the run
Collect(r, n) ==
    /\ rpc[r] = "collecting"
    /\ collected' = [collected EXCEPT ![r] = TRUE]
    /\ short' = [short EXCEPT ![r] = n < MinArticles]
    /\ IF n = 0
       THEN /\ rpc' = [rpc EXCEPT ![r] = "done"]
            /\ UNCHANGED <<selected, n_best>>
       ELSE LET best == IF n <= articles_per_post THEN n ELSE articles_per_post
            IN  /\ selected' = [selected EXCEPT ![r] = TRUE]
                /\ IF TooFew(best)
                   THEN /\ rpc' = [rpc EXCEPT ![r] = "done"]
                        /\ UNCHANGED n_best
                   ELSE /\ rpc' = [rpc EXCEPT ![r] = "processing"]
                        /\ n_best' = [n_best EXCEPT ![r] = best]
    /\ UNCHANGED <<today, daily_posts, max_posts_per_day, today_count,
                   n_processed, post_result, invoked, start_day, runs_started,
                   overlap, published, summarized>>
    /\ UNCHANGED exceptBudget

\* line 418 with the IntegratedAICollector of integrated_collector.py, which
\* has no collect_all_sources: the call raises AttributeError, and lines
\* 495-497 raise it again; the run ends without a post
CollectRaises(r) ==
    /\ rpc[r] = "collecting"
    /\ rpc' = [rpc EXCEPT ![r] = "raised"]
    /\ UNCHANGED <<today, daily_posts, max_posts_per_day, today_count, n_best,
                   n_processed, post_result, collected, selected, invoked,
                   start_day, runs_started, overlap, published, short,
                   summarized>>
    /\ UNCHANGED exceptBudget

\* lines 434-470: k of the selected articles are processed; none ends the
\* run; else the consolidated post is built
Process(r, k) ==
    /\ rpc[r] = "processing"
    /\ k <= n_best[r]
    /\ summarized' = [summarized EXCEPT ![r] = TRUE]
    /\ IF k = 0
       THEN /\ rpc' = [rpc EXCEPT ![r] = "done"]
            /\ n_best' = [n_best EXCEPT ![r] = 0]
            /\ UNCHANGED n_processed
       ELSE /\ rpc' = [rpc EXCEPT ![r] = "posting"]
            /\ n_processed' = [n_processed EXCEPT ![r] = k]
            /\ UNCHANGED n_best
    /\ UNCHANGED <<today, daily_posts, max_posts_per_day, today_count,
                   post_result, collected, selected, invoked, start_day,
                   runs_started, overlap, published, short>>
    /\ UNCHANGED exceptBudget

\* a variant of the post step that reads the record again and gives up when
\* the limit has been reached meanwhile
PostLocked(r, ok) ==
    /\ rpc[r] = "posting"
    /\ rpc' = [rpc EXCEPT ![r] = "done"]
    /\ n_best' = [n_best EXCEPT ![r] = 0]
    /\ n_processed' = [n_processed EXCEPT ![r] = 0]
    /\ IF LimitReached(LoadTodayPostsCount(daily_posts, today),
                       max_posts_per_day)
       THEN UNCHANGED <<invoked, post_result, daily_posts, published>>
       ELSE /\ invoked' = [invoked EXCEPT ![r] = TRUE]
            /\ IF ok
               THEN /\ post_result' = [post_result EXCEPT ![r] = "receipt"]
                    /\ daily_posts' = SaveTodayPostsCount(daily_posts, today, 1)
                    /\ published' = [published EXCEPT ![today] = @ + 1]
               ELSE /\ post_result' = [post_result EXCEPT ![r] = "failure"]
                    /\ UNCHANGED <<daily_posts, published>>
    /\ UNCHANGED <<today, max_posts_per_day, today_count, collected, selected,
                   start_day, runs_started, overlap, short, summarized>>
    /\ UNCHANGED exceptBudget

\* lines 472-493: create_post is called; on a receipt the count is saved
Post(r, ok) ==
    /\ rpc[r] = "posting"
    /\ invoked' = [invoked EXCEPT ![r] = TRUE]
    /\ rpc' = [rpc EXCEPT ![r] = "done"]
    /\ IF ok
       THEN /\ post_result' = [post_result EXCEPT ![r] = "receipt"]
            /\ daily_posts' = SaveTodayPostsCount(daily_posts, today,
                                                  CountToSave(today_count[r]))
            /\ published' = [published EXCEPT ![today] = @ + 1]
       ELSE /\ post_result' = [post_result EXCEPT ![r] = "failure"]
            /\ UNCHANGED <<daily_posts, published>>
    /\ n_best' = [n_best EXCEPT ![r] = 0]
    /\ n_processed' = [n_processed EXCEPT ![r] = 0]
    /\ UNCHANGED <<today, max_posts_per_day, today_count, collected, selected,
                   start_day, runs_started, overlap, short, summarized>>
    /\ UNCHANGED exceptBudget

NextBudget ==
    \/ \E limit \in 1..MaxPostsPerDay : Construct(limit)
    \/ Midnight
    \/ \E r \in Runs : StartRun(r)
    \/ \E r \in Runs : \E n \in 0..MaxCollected : Collect(r, n)
    \/ \E r \in Runs : CollectRaises(r)
    \/ \E r \in Runs : \E k \in 0..articles_per_post : Process(r, k)
    \/ \E r \in Runs : \E ok \in BOOLEAN : Post(r, ok)

(***************************************************************************)
(* Rate limiter: AdvancedScraper._wait_for_rate_limit and the tasks that   *)
(* call it.  Times are in ticks, TicksPerSecond to the second; every event *)
(* of the event loop happens at a tick.                                    *)
(***************************************************************************)
TicksPerSecond == 2

MaxTime == 8

MaxTasks == 2

rate_limits_default == 1

\* task <<s, 0>> is _collect_from_source of source s; <<s, k>> with k > 0 is
\* the k-th _process_article task it creates
Tasks == SourceIds \X (0..MaxTasks)

SiteOf(t) == t[1]

IsSourceTask(t) == t[2] = 0

\* lines 124-129: no site of site_configs sets 'rate_limit', so every site
\* key has the interval of 'default'
RateLimit(site_key) == rate_limits_default * TicksPerSecond

RateInit ==
    /\ now = RateLimit(1)     \* time.time() is far from 0: no first wait
    /\ last_access = [s \in SourceIds |-> 0]
    /\ tpc = [t \in Tasks |-> "idle"]
    /\ wake_at = [t \in Tasks |-> 0]
    /\ prev_fetch = [s \in SourceIds |-> 0]
    /\ last_fetch = [s \in SourceIds |-> 0]
    /\ n_fetches = [s \in SourceIds |-> 0]

\* line 138, then session.get (line 154) with no suspension in between: the
\* task stamps last_access and its fetch starts
StartFetch(t) ==
    /\ last_access' = [last_access EXCEPT ![SiteOf(t)] = now]
    /\ prev_fetch' = [prev_fetch EXCEPT ![SiteOf(t)] = last_fetch[SiteOf(t)]]
    /\ last_fetch' = [last_fetch EXCEPT ![SiteOf(t)] = now]
    /\ n_fetches' = [n_fetches EXCEPT ![SiteOf(t)] = @ + 1]
    /\ tpc' = [tpc EXCEPT ![t] = "fetching"]

\* collect_all_articles, lines 347-363: one _collect_from_source task per
\* source is created and the gather starts them (the semaphore of
\* max_concurrent = 10 admits them all)
StartCollection ==
    /\ \A t \in Tasks : tpc[t] \in {"idle", "done"}
    /\ now < MaxTime
    /\ tpc' = [t \in Tasks |-> IF IsSourceTask(t) THEN "ready" ELSE "idle"]
    /\ UNCHANGED <<now, last_access, wake_at, prev_fetch, last_fetch,
                   n_fetches>>
    /\ UNCHANGED exceptRate

\* _wait_for_rate_limit, lines 124-138: the task reads last_access and either
\* goes to sleep for rate_limit - elapsed or goes on at once
WaitForRateLimit(t) ==
    /\ tpc[t] = "ready"
    /\ \A u \in Tasks :
          (SiteOf(u) = SiteOf(t) /\ u[2] < t[2]) => tpc[u] # "ready"
    /\ LET rate_limit == RateLimit(SiteOf(t))
           last_time == last_access[SiteOf(t)]
           elapsed == now - last_time
       IN  IF elapsed < rate_limit
           THEN /\ tpc' = [tpc EXCEPT ![t] = "sleeping"]
                /\ wake_at' = [wake_at EXCEPT ![t] = now + (rate_limit - elapsed)]
                /\ UNCHANGED <<last_access, prev_fetch, last_fetch, n_fetches>>
           ELSE /\ StartFetch(t)
                /\ UNCHANGED wake_at
    /\ UNCHANGED now
    /\ UNCHANGED exceptRate

\* lines 136-138: asyncio.sleep is over and the task goes on
WakeUp(t) ==
    /\ tpc[t] = "sleeping"
    /\ now >= wake_at[t]
    /\ StartFetch(t)
    /\ wake_at' = [wake_at EXCEPT ![t] = 0]
    /\ UNCHANGED now
    /\ UNCHANGED exceptRate

\* _collect_from_source, lines 220-285: the entry page has arrived (or the
\* fetch failed: n = 0); n _process_article tasks are created and gathered
EntryPageArrives(s, n) ==
    /\ tpc[<<s, 0>>] = "fetching"
    /\ tpc' = [t \in Tasks |->
                  IF t = <<s, 0>> THEN (IF n = 0 THEN "done" ELSE "gathering")
                  ELSE IF SiteOf(t) = s /\ t[2] <= n THEN "ready"
                  ELSE tpc[t]]
    /\ UNCHANGED <<now, last_access, wake_at, prev_fetch, last_fetch,
                   n_fetches>>
    /\ UNCHANGED exceptRate

\* _process_article, lines 309-332: the article page has arrived and the task
\* ends; lines 285-294: when the last one ends, so does the source task
ArticlePageArrives(t) ==
    /\ ~IsSourceTask(t)
    /\ tpc[t] = "fetching"
    /\ LET others == {u \in Tasks : SiteOf(u) = SiteOf(t) /\ u[2] > 0 /\ u # t}
           last == \A u \in others : tpc[u] \in {"idle", "done"}
       IN  tpc' = [u \in Tasks |->
                      IF u = t THEN "done"
                      ELSE IF u = <<SiteOf(t), 0>> /\ last THEN "done"
                      ELSE tpc[u]]
    /\ UNCHANGED <<now, last_access, wake_at, prev_fetch, last_fetch,
                   n_fetches>>
    /\ UNCHANGED exceptRate

\* a tick passes: no task is ready to run and no sleep is overdue
Tick ==
    /\ now < MaxTime
    /\ \A t \in Tasks :
          /\ tpc[t] # "ready"
          /\ tpc[t] = "sleeping" => wake_at[t] > now
    /\ now' = now + 1
    /\ UNCHANGED <<last_access, tpc, wake_at, prev_fetch, last_fetch,
                   n_fetches>>
    /\ UNCHANGED exceptRate

NextRate ==
    \/ StartCollection
    \/ \E t \in Tasks : WaitForRateLimit(t)
    \/ \E t \in Tasks : WakeUp(t)
    \/ \E s \in SourceIds : \E n \in 0..MaxTasks : EntryPageArrives(s, n)
    \/ \E t \in Tasks : ArticlePageArrives(t)
    \/ Tick

(***************************************************************************)
(* Cache: the lookup of _collect_from_source, then _process_article.       *)
(* Times are in hours.  An article is named by the execution that fetched  *)
(* it; 0 stands for None.                                                  *)
(***************************************************************************)
max_age_hours == 6

MaxHours == 6

MaxExecs == 2

Execs == 1..MaxExecs

NoEntry == [exists |-> FALSE, mtime |-> 0, payload |-> 0]

\* a variant of the freshness test that accepts the age max_age_hours
IsCacheValidInclusive(entry, t) ==
    entry.exists /\ t - entry.mtime <= max_age_hours

\* a variant of the freshness test with the comparison turned round
IsCacheValidReversed(entry, t) ==
    entry.exists /\ t - entry.mtime > max_age_hours

\* _is_cache_valid, lines 91-97
IsCacheValid(entry, t) ==
    entry.exists /\ t - entry.mtime < max_age_hours

\* _load_from_cache, lines 99-111
LoadFromCache(u) ==
    IF IsCacheValid(cache[u], clock) THEN cache[u].payload ELSE 0

\* _save_to_cache, lines 113-120: the file is written anew
SaveToCache(u, payload) ==
    [cache EXCEPT ![u] = [exists |-> TRUE, mtime |-> clock,
                          payload |-> payload]]

CacheInit ==
    /\ clock = 0
    /\ cache = [u \in URLs |-> NoEntry]
    /\ epc = [e \in Execs |-> "idle"]
    /\ eurl = [e \in Execs |-> "none"]
    /\ eresult = [e \in Execs |-> 0]
    /\ fetched = [e \in Execs |-> FALSE]
    /\ outcome = [e \in Execs |-> "none"]
    /\ look_time = [e \in Execs |-> 0]
    /\ last_writer = [u \in URLs |-> 0]
    /\ last_written = [u \in URLs |-> 0]
    /\ prior_writer = [e \in Execs |-> 0]
    /\ prior_written = [e \in Execs |-> 0]

\* _collect_from_source, lines 265-276, for a link to u: a valid cache entry
\* is taken as the article; otherwise a _process_article task is created
CacheCheck(e, u) ==
    /\ epc[e] = "idle"
    /\ eurl' = [eurl EXCEPT ![e] = u]
    /\ look_time' = [look_time EXCEPT ![e] = clock]
    /\ prior_writer' = [prior_writer EXCEPT ![e] = last_writer[u]]
    /\ prior_written' = [prior_written EXCEPT ![e] = last_written[u]]
    /\ LET cached_article == LoadFromCache(u)
       IN  IF cached_article # 0
           THEN /\ epc' = [epc EXCEPT ![e] = "done"]
                /\ eresult' = [eresult EXCEPT ![e] = cached_article]
                /\ outcome' = [outcome EXCEPT ![e] = "hit"]
           ELSE /\ epc' = [epc EXCEPT ![e] = "task"]
                /\ UNCHANGED <<eresult, outcome>>
    /\ UNCHANGED <<clock, cache, fetched, last_writer, last_written>>
    /\ UNCHANGED exceptCache

\* _process_article, lines 300-332: the URL is fetched; content that is
\* missing or shorter than 100 characters is rejected; otherwise the article
\* is built and written to the cache (a failed write is only logged)
ProcessArticle(e, res) ==
    /\ epc[e] = "task"
    /\ epc' = [epc EXCEPT ![e] = "done"]
    /\ fetched' = [fetched EXCEPT ![e] = TRUE]
    /\ outcome' = [outcome EXCEPT ![e] = res]
    /\ eresult' = [eresult EXCEPT ![e] = IF res = "rejected" THEN 0 ELSE e]
    /\ IF res = "saved"
       THEN /\ cache' = SaveToCache(eurl[e], e)
            /\ last_writer' = [last_writer EXCEPT ![eurl[e]] = e]
            /\ last_written' = [last_written EXCEPT ![eurl[e]] = clock]
       ELSE UNCHANGED <<cache, last_writer, last_written>>
    /\ UNCHANGED <<clock, eurl, look_time, prior_writer, prior_written>>
    /\ UNCHANGED exceptCache

\* an hour passes
HourPasses ==
    /\ clock < MaxHours
    /\ clock' = clock + 1
    /\ UNCHANGED <<cache, epc, eurl, eresult, fetched, outcome, look_time,
                   last_writer, last_written, prior_writer, prior_written>>
    /\ UNCHANGED exceptCache

\* Expiry and sweep: the same cache over more than a day
MaxSweepHours == 30

HoursPerDay == 24

\* the max_age_days the program passes: 1 (main.py:511) and the default 7
SweepDays == {1, 7}

\* max_age_hours pass, in a run of more than a day
HoursPass ==
    /\ clock + max_age_hours <= MaxSweepHours
    /\ clock' = clock + max_age_hours
    /\ UNCHANGED <<cache, epc, eurl, eresult, fetched, outcome, look_time,
                   last_writer, last_written, prior_writer, prior_written>>
    /\ UNCHANGED exceptCache

\* clear_cache(max_age_days), lines 399-414: the files whose time lies
\* before the cutoff are deleted
ClearCache(max_age_days) ==
    /\ \A e \in Execs : epc[e] # "task"
    /\ LET cutoff_time == clock - max_age_days * HoursPerDay
       IN  cache' = [u \in URLs |->
                        IF cache[u].exists /\ cache[u].mtime < cutoff_time
                        THEN NoEntry ELSE cache[u]]
    /\ UNCHANGED <<clock, epc, eurl, eresult, fetched, outcome, look_time,
                   last_writer, last_written, prior_writer, prior_written>>
    /\ UNCHANGED exceptCache

NextExpiry ==
    \/ \E e \in Execs : \E u \in URLs : CacheCheck(e, u)
    \/ \E e \in Execs :
          \E res \in {"saved", "unsaved", "rejected"} : ProcessArticle(e, res)
    \/ HoursPass
    \/ \E max_age_days \in SweepDays : ClearCache(max_age_days)

NextCache ==
    \/ \E e \in Execs : \E u \in URLs : CacheCheck(e, u)
    \/ \E e \in Execs :
          \E res \in {"saved", "unsaved", "rejected"} : ProcessArticle(e, res)
    \/ HourPasses

(***************************************************************************)
(* Scoring: the score select_best_articles gives one article               *)
(***************************************************************************)
TitleLens == {15, 40, 90}

ContentLens == {100, 150, 151, 300, 301, 500, 501, 600}

KeywordSets == SUBSET {"ChatGPT", "LLM"}

SourceNames == {"blog", "ITmedia", "GIGAZINE", "wired"}

ScoredArticles ==
    [title_len : TitleLens, content_len : ContentLens, keywords : KeywordSets,
     source : SourceNames]

NoArticle ==
    [title_len |-> 0, content_len |-> 0, keywords |-> {}, source |-> "none"]

ScoreInit ==
    /\ art_a = NoArticle
    /\ art_b = NoArticle
    /\ score_a = 0
    /\ score_b = 0
    /\ scpc = "none"

\* lines 60-96 for one article
ScoreFirst(a) ==
    /\ art_a' = a
    /\ score_a' = Score(a)
    /\ art_b' = NoArticle
    /\ score_b' = 0
    /\ scpc' = "first"
    /\ UNCHANGED exceptScore

\* lines 60-96 for the same article with a longer content, the keyword
\* matches being the same
ScoreLonger(len) ==
    /\ scpc = "first"
    /\ len > art_a.content_len
    /\ art_b' = [art_a EXCEPT !.content_len = len]
    /\ score_b' = Score([art_a EXCEPT !.content_len = len])
    /\ scpc' = "longer"
    /\ UNCHANGED <<art_a, score_a>>
    /\ UNCHANGED exceptScore

\* lines 60-96 for the same article with a trusted source
ScoreTrusted(src) ==
    /\ scpc = "first"
    /\ SourceLower(src) \in trusted_sources
    /\ art_b' = [art_a EXCEPT !.source = src]
    /\ score_b' = Score([art_a EXCEPT !.source = src])
    /\ scpc' = "trusted"
    /\ UNCHANGED <<art_a, score_a>>
    /\ UNCHANGED exceptScore

NextScore ==
    \/ \E a \in ScoredArticles : ScoreFirst(a)
    \/ \E len \in ContentLens : ScoreLonger(len)
    \/ \E src \in SourceNames : ScoreTrusted(src)

(***************************************************************************)
(* Concurrency cap: collect_all_articles with its semaphore and its        *)
(* TCPConnector.  The _process_article calls of one source are counted,    *)
(* not named.                                                              *)
(***************************************************************************)
MaxSources == 2

MaxConcurrent == 1

AllSources == 1..MaxSources

\* how a network read may end (lines 152-167): with a response, with an
\* error, or with its timeout when the server never answers
ReadEnds == {"response", "error", "timeout"}

\* a variant of the connector that hands out a connection to every caller
CanConnectAlways(in_use, limit) == TRUE

\* TCPConnector(limit=self.max_concurrent), line 341: a request waits while
\* limit connections are in use
CanConnect(in_use, limit) == in_use < limit

\* a variant of the exit of "async with semaphore" that keeps the permit
KeepPermit(free) == free

\* the exit of "async with semaphore", lines 358-359
ReleasePermit(free) == free + 1

Holding(s) == src_pc[s] \in {"entry_wait", "entry_read", "gathering"}

SemInit ==
    /\ cpc = "idle"
    /\ max_concurrent = 0
    /\ n_sources = 0
    /\ src_pc = [s \in AllSources |-> "none"]
    /\ src_how = [s \in AllSources |-> "none"]
    /\ n_waiting = [s \in AllSources |-> 0]
    /\ n_reading = [s \in AllSources |-> 0]
    /\ n_ended = [s \in AllSources |-> 0]
    /\ permits = 0
    /\ connections = 0

\* AdvancedScraper(max_concurrent=limit) with n sources, then
\* collect_all_articles, lines 341-363: connector, semaphore, one task per
\* source, all gathered
StartGather(limit, n) ==
    /\ cpc = "idle"
    /\ cpc' = "gathering"
    /\ max_concurrent' = limit
    /\ n_sources' = n
    /\ permits' = limit
    /\ src_pc' = [s \in AllSources |-> IF s <= n THEN "queued" ELSE "none"]
    /\ UNCHANGED <<src_how, n_waiting, n_reading, n_ended, connections>>
    /\ UNCHANGED exceptSem

\* "async with semaphore", line 358: the source task takes a permit and
\* _collect_from_source starts; its request for the entry page is issued
AcquirePermit(s) ==
    /\ src_pc[s] = "queued"
    /\ permits > 0
    /\ permits' = permits - 1
    /\ src_pc' = [src_pc EXCEPT ![s] = "entry_wait"]
    /\ UNCHANGED <<cpc, max_concurrent, n_sources, src_how, n_waiting,
                   n_reading, n_ended, connections>>
    /\ UNCHANGED exceptSem

\* session.get, line 154, for the entry page: a connection is free
EntryConnects(s) ==
    /\ src_pc[s] = "entry_wait"
    /\ CanConnect(connections, max_concurrent)
    /\ connections' = connections + 1
    /\ src_pc' = [src_pc EXCEPT ![s] = "entry_read"]
    /\ UNCHANGED <<cpc, max_concurrent, n_sources, src_how, n_waiting,
                   n_reading, n_ended, permits>>
    /\ UNCHANGED exceptSem

\* lines 154-167 and 220-285: the entry read ends; without a page the source
\* task returns (and leaves the semaphore); with it, n _process_article calls
\* are gathered (n = 0: the task returns)
EntryReadEnds(s, how, n) ==
    /\ src_pc[s] = "entry_read"
    /\ connections' = connections - 1
    /\ src_how' = [src_how EXCEPT ![s] = how]
    /\ IF how = "response" /\ n > 0
       THEN /\ src_pc' = [src_pc EXCEPT ![s] = "gathering"]
            /\ n_waiting' = [n_waiting EXCEPT ![s] = n]
            /\ UNCHANGED permits
       ELSE /\ src_pc' = [src_pc EXCEPT ![s] = "done"]
            /\ permits' = ReleasePermit(permits)
            /\ UNCHANGED n_waiting
    /\ UNCHANGED <<cpc, max_concurrent, n_sources, n_reading, n_ended>>
    /\ UNCHANGED exceptSem

\* session.get, line 154, in a _process_article call: a connection is free
ArticleConnects(s) ==
    /\ src_pc[s] = "gathering"
    /\ n_waiting[s] > 0
    /\ CanConnect(connections, max_concurrent)
    /\ connections' = connections + 1
    /\ n_waiting' = [n_waiting EXCEPT ![s] = @ - 1]
    /\ n_reading' = [n_reading EXCEPT ![s] = @ + 1]
    /\ UNCHANGED <<cpc, max_concurrent, n_sources, src_pc, src_how, n_ended,
                   permits>>
    /\ UNCHANGED exceptSem

\* lines 309-332: the read of a _process_article call ends and so does the
\* call; lines 285-294 and 358-359: with the last one the source task
\* returns and leaves the semaphore
ArticleReadEnds(s, how) ==
    /\ src_pc[s] = "gathering"
    /\ n_reading[s] > 0
    /\ connections' = connections - 1
    /\ n_reading' = [n_reading EXCEPT ![s] = @ - 1]
    /\ n_ended' = [n_ended EXCEPT ![s] = @ + 1]
    /\ IF n_reading[s] = 1 /\ n_waiting[s] = 0
       THEN /\ src_pc' = [src_pc EXCEPT ![s] = "done"]
            /\ permits' = ReleasePermit(permits)
       ELSE UNCHANGED <<src_pc, permits>>
    /\ UNCHANGED <<cpc, max_concurrent, n_sources, src_how, n_waiting>>
    /\ UNCHANGED exceptSem

\* lines 363-379: every source task has returned; so does
\* collect_all_articles
GatherEnds ==
    /\ cpc = "gathering"
    /\ \A s \in 1..n_sources : src_pc[s] = "done"
    /\ cpc' = "returned"
    /\ UNCHANGED <<max_concurrent, n_sources, src_pc, src_how, n_waiting,
                   n_reading, n_ended, permits, connections>>
    /\ UNCHANGED exceptSem

NextSem ==
    \/ \E limit \in 1..MaxConcurrent : \E n \in 1..MaxSources :
          StartGather(limit, n)
    \/ \E s \in AllSources : AcquirePermit(s)
    \/ \E s \in AllSources : EntryConnects(s)
    \/ \E s \in AllSources : \E how \in ReadEnds : \E n \in 0..MaxTasks :
          EntryReadEnds(s, how, n)
    \/ \E s \in AllSources : ArticleConnects(s)
    \/ \E s \in AllSources : \E how \in ReadEnds : ArticleReadEnds(s, how)
    \/ GatherEnds

(***************************************************************************)
(* ArticleProcessor (article_processor.py): summary, commentary and batch  *)
(***************************************************************************)
MaxBatch == 2

\* len(article.content) on both sides of the 300 characters of the fallback
ContentSizes == {1, 300, 301, 2500}

FallbackChars == 300

\* how chat.completions.create ends: a text, an empty content or an exception
SummaryResponses == {"text", "empty", "error"}

\* the commentary call may also stop at the token limit (finish_reason)
CommentResponses == {"text", "length", "empty", "error"}

NoResponses == [summary |-> "none", comment |-> "none"]

BatchArticles ==
    UNION {[1..n -> ContentSizes] : n \in 0..MaxBatch}

PrefixLen(content_len) ==
    IF content_len < FallbackChars THEN content_len ELSE FallbackChars

\* article.content[:300] + "..."
FallbackSummary(content_len) ==
    [kind |-> "content", chars |-> PrefixLen(content_len), tail |-> "..."]

FallbackComment == [kind |-> "fixed", cut |-> FALSE]

\* a generate_summary whose handler raises again
GenerateSummaryUncaught(content_len, resp) ==
    IF resp = "text"
    THEN [raised |-> FALSE, value |-> [kind |-> "model", chars |-> 0, tail |-> ""]]
    ELSE IF resp = "empty"
    THEN [raised |-> FALSE, value |-> FallbackSummary(content_len)]
    ELSE [raised |-> TRUE, value |-> FallbackSummary(content_len)]

\* generate_summary, lines 192-218
GenerateSummary(content_len, resp) ==
    IF resp = "text"
    THEN [raised |-> FALSE, value |-> [kind |-> "model", chars |-> 0, tail |-> ""]]
    ELSE [raised |-> FALSE, value |-> FallbackSummary(content_len)]

\* generate_user_value_comment, lines 220-269
GenerateUserValueComment(resp) ==
    IF resp \in {"text", "length"}
    THEN [raised |-> FALSE, value |-> [kind |-> "model", cut |-> resp = "length"]]
    ELSE [raised |-> FALSE, value |-> FallbackComment]

\* process_article, lines 271-299
ProcessOne(i, content_len, sresp, cresp) ==
    LET summary == GenerateSummary(content_len, sresp)
        user_value_comment == GenerateUserValueComment(cresp)
    IN  [raised |-> summary.raised \/ user_value_comment.raised,
         value |-> [original_article |-> i,
                    summary |-> summary.value,
                    user_value_comment |-> user_value_comment.value]]

ProcInit ==
    /\ articles_in = << >>
    /\ bpc = "idle"
    /\ bpos = 0
    /\ processed_articles = << >>
    /\ responses = << >>

\* process_articles_batch is called, lines 301-305
ProcessArticlesBatch(arts) ==
    /\ bpc = "idle"
    /\ articles_in' = arts
    /\ bpc' = "loop"
    /\ bpos' = 0
    /\ processed_articles' = << >>
    /\ responses' = [i \in 1..Len(arts) |-> NoResponses]
    /\ UNCHANGED exceptProc

\* one turn of the loop, lines 307-315: an exception skips the article
ProcessNextArticle(sresp, cresp) ==
    /\ bpc = "loop"
    /\ bpos < Len(articles_in)
    /\ LET i == bpos + 1
           processed == ProcessOne(i, articles_in[i], sresp, cresp)
       IN  /\ processed_articles' =
                  IF processed.raised THEN processed_articles
                  ELSE Append(processed_articles, processed.value)
           /\ responses' = [responses EXCEPT
                               ![i] = [summary |-> sresp, comment |-> cresp]]
           /\ bpos' = i
    /\ UNCHANGED <<articles_in, bpc>>
    /\ UNCHANGED exceptProc

\* the loop is over, lines 317-318
BatchReturns ==
    /\ bpc = "loop"
    /\ bpos = Len(articles_in)
    /\ bpc' = "returned"
    /\ UNCHANGED <<articles_in, bpos, processed_articles, responses>>
    /\ UNCHANGED exceptProc

NextProc ==
    \/ \E arts \in BatchArticles : ProcessArticlesBatch(arts)
    \/ \E sresp \in SummaryResponses : \E cresp \in CommentResponses :
          ProcessNextArticle(sresp, cresp)
    \/ BatchReturns

(***************************************************************************)
(* Entry points: DailyAIPublisher and main of daily_publisher.py, the      *)
(* construction of AINewsSystem and main of main.py, ScheduledAINewsSystem *)
(* and main of scheduler.py                                                *)
(***************************************************************************)
MaxEntryArticles == 4

min_articles == 3

max_articles == 8

EntryPoints == {"daily_publisher", "ai_news_system", "main_py", "scheduler"}

Arguments ==
    {<< >>, <<"--test">>, <<"--test", "workflow">>, <<"workflow", "--test">>,
     <<"collect">>}

\* a main that never takes the test branch
RunModeAlwaysProduction(args) == "production"

\* daily_publisher.py main, line 197
RunMode(args) ==
    IF Len(args) > 0 /\ args[1] = "--test" THEN "test" ELSE "production"

EntryInit ==
    /\ entry_pt = "none"
    /\ argv = << >>
    /\ api_key = FALSE
    /\ stage = "idle"
    /\ construction = "none"
    /\ run_mode = "none"
    /\ requests = {}
    /\ create_post_calls = 0
    /\ n_articles = 0

\* the script is started
Launch(ep, args, has_key) ==
    /\ stage = "idle"
    /\ entry_pt' = ep
    /\ argv' = args
    /\ api_key' = has_key
    /\ stage' = "started"
    /\ UNCHANGED <<construction, run_mode, requests, create_post_calls,
                   n_articles>>
    /\ UNCHANGED exceptEntry

\* DailyAIPublisher(), daily_publisher.py lines 19-23 and 194-197:
\* ArticleProcessor() raises ValueError without a key (article_processor.py
\* lines 48-51) and main lets it through
ConstructPublisher ==
    /\ stage = "started"
    /\ entry_pt = "daily_publisher"
    /\ IF api_key
       THEN /\ construction' = "ok"
            /\ run_mode' = RunMode(argv)
            /\ stage' = "constructed"
       ELSE /\ construction' = "aborted"
            /\ stage' = "ended"
            /\ UNCHANGED run_mode
    /\ UNCHANGED <<entry_pt, argv, api_key, requests, create_post_calls,
                   n_articles>>
    /\ UNCHANGED exceptEntry

\* AINewsSystem(), main.py lines 19-25
ConstructSystem ==
    /\ stage = "started"
    /\ entry_pt = "ai_news_system"
    /\ construction' = IF api_key THEN "ok" ELSE "aborted"
    /\ stage' = "ended"
    /\ UNCHANGED <<entry_pt, argv, api_key, run_mode, requests,
                   create_post_calls, n_articles>>
    /\ UNCHANGED exceptEntry

\* ScheduledAINewsSystem(), scheduler.py lines 29-42 and 96-115: without a
\* key the processor stays None and a warning is logged; test_connection is
\* called either way
ConstructScheduler ==
    /\ stage = "started"
    /\ entry_pt = "scheduler"
    /\ construction' = "ok"
    /\ requests' = requests \cup {"test_connection"}
    /\ stage' = "constructed"
    /\ UNCHANGED <<entry_pt, argv, api_key, run_mode, create_post_calls,
                   n_articles>>
    /\ UNCHANGED exceptEntry

\* scheduler.py main, lines 318-335, with the files as given:
\* daily_collection_job catches the AttributeError of line 177 and returns
\* the empty list, so nothing is processed or posted
SchedulerRuns ==
    /\ stage = "constructed"
    /\ entry_pt = "scheduler"
    /\ stage' = "ended"
    /\ UNCHANGED <<entry_pt, argv, api_key, construction, run_mode, requests,
                   create_post_calls, n_articles>>
    /\ UNCHANGED exceptEntry

\* main.py main, lines 616-627: collect_all_news_sources fetches first
MainCollects(n) ==
    /\ stage = "started"
    /\ entry_pt = "main_py"
    /\ requests' = requests \cup {"collect"}
    /\ n_articles' = n
    /\ stage' = IF n = 0 THEN "ended" ELSE "collected"
    /\ UNCHANGED <<entry_pt, argv, api_key, construction, run_mode,
                   create_post_calls>>
    /\ UNCHANGED exceptEntry

\* main.py main, lines 630-659: ArticleProcessor() comes after the
\* collection and its ValueError is caught and printed; post_article is not
\* a method of WordPressConnector, so the AttributeError is caught as well
MainProcesses ==
    /\ stage = "collected"
    /\ entry_pt = "main_py"
    /\ IF api_key
       THEN /\ construction' = "ok"
            /\ requests' = requests \cup {"model"}
       ELSE /\ construction' = "aborted"
            /\ UNCHANGED requests
    /\ stage' = "ended"
    /\ UNCHANGED <<entry_pt, argv, api_key, run_mode, create_post_calls,
                   n_articles>>
    /\ UNCHANGED exceptEntry

\* test_run and run_daily_publication with the files as given: the
\* AttributeError of collect_all_sources is caught, lines 186-188 and 108-112
PublisherCollectRaises ==
    /\ entry_pt = "daily_publisher"
    /\ \/ stage = "constructed" /\ run_mode = "test"
       \/ stage = "tested" /\ run_mode = "production"
    /\ stage' = "ended"
    /\ UNCHANGED <<entry_pt, argv, api_key, construction, run_mode, requests,
                   create_post_calls, n_articles>>
    /\ UNCHANGED exceptEntry

\* test_run, lines 164-167 and 184
TestCollects(n) ==
    /\ stage = "constructed"
    /\ entry_pt = "daily_publisher"
    /\ run_mode = "test"
    /\ requests' = requests \cup {"collect"}
    /\ n_articles' = n
    /\ stage' = IF n = 0 THEN "ended" ELSE "collected"
    /\ UNCHANGED <<entry_pt, argv, api_key, construction, run_mode,
                   create_post_calls>>
    /\ UNCHANGED exceptEntry

\* test_run, lines 169-188: one article is processed and the content is
\* generated and printed; an exception is caught
TestProcesses(generated) ==
    /\ stage = "collected"
    /\ entry_pt = "daily_publisher"
    /\ run_mode = "test"
    /\ requests' = requests \cup {"model"}
    /\ n_articles' = 1
    /\ stage' = IF generated THEN "test_passed" ELSE "ended"
    /\ UNCHANGED <<entry_pt, argv, api_key, construction, run_mode,
                   create_post_calls>>
    /\ UNCHANGED exceptEntry

\* run_daily_publication, lines 36-39
ProductionTestsConnection(connected) ==
    /\ stage = "constructed"
    /\ entry_pt = "daily_publisher"
    /\ run_mode = "production"
    /\ requests' = requests \cup {"test_connection"}
    /\ stage' = IF connected THEN "tested" ELSE "ended"
    /\ UNCHANGED <<entry_pt, argv, api_key, construction, run_mode,
                   create_post_calls, n_articles>>
    /\ UNCHANGED exceptEntry

\* run_daily_publication, lines 43-54
ProductionCollects(n) ==
    /\ stage = "tested"
    /\ entry_pt = "daily_publisher"
    /\ run_mode = "production"
    /\ requests' = requests \cup {"collect"}
    /\ IF n < min_articles
       THEN /\ stage' = "ended"
            /\ n_articles' = n
       ELSE /\ stage' = "collected"
            /\ n_articles' = IF n > max_articles THEN max_articles ELSE n
    /\ UNCHANGED <<entry_pt, argv, api_key, construction, run_mode,
                   create_post_calls>>
    /\ UNCHANGED exceptEntry

\* run_daily_publication, lines 58-106: processing, content, create_post
ProductionPosts ==
    /\ stage = "collected"
    /\ entry_pt = "daily_publisher"
    /\ run_mode = "production"
    /\ requests' = requests \cup {"model", "post"}
    /\ create_post_calls' = create_post_calls + 1
    /\ stage' = "ended"
    /\ UNCHANGED <<entry_pt, argv, api_key, construction, run_mode,
                   n_articles>>
    /\ UNCHANGED exceptEntry

NextEntry ==
    \/ \E ep \in EntryPoints : \E args \in Arguments : \E has_key \in BOOLEAN :
          Launch(ep, args, has_key)
    \/ ConstructPublisher
    \/ ConstructSystem
    \/ ConstructScheduler
    \/ SchedulerRuns
    \/ \E n \in 0..MaxEntryArticles : MainCollects(n)
    \/ MainProcesses
    \/ PublisherCollectRaises
    \/ \E n \in 0..MaxEntryArticles : TestCollects(n)
    \/ \E generated \in BOOLEAN : TestProcesses(generated)
    \/ \E connected \in BOOLEAN : ProductionTestsConnection(connected)
    \/ \E n \in 0..MaxEntryArticles : ProductionCollects(n)
    \/ ProductionPosts

(***************************************************************************)
(* Duplicate tracker: NewsArticle.hash_id and AINewsCollector              *)
(* (news_collector.py).  Strings are sequences of characters; an MD5       *)
(* digest is named by the string that was digested.                        *)
(***************************************************************************)
TrackTitles == { <<"a">>, <<"a", "b">> }

TrackURLs == { <<"c">>, <<"b", "c">> }

TrackSources == { <<"s">> }

TrackContents == { <<"x">>, <<"y">> }

\* a digest of the content as well
HashIdWithContent(title, url, content, source) ==
    title \o url \o content \o source

\* __post_init__, lines 29-33: md5 of f"{title}{url}{source}"
HashId(title, url, content, source) == title \o url \o source

\* NewsArticle(title, url, content, source), no hash_id given
NewsArticle(title, url, content, source) ==
    [title |-> title, url |-> url, content |-> content, source |-> source,
     hash_id |-> HashId(title, url, content, source)]

NewsArticles ==
    {NewsArticle(tt, uu, cc, ss) :
        tt \in TrackTitles, uu \in TrackURLs, cc \in TrackContents,
        ss \in TrackSources}

Triple(article) == <<article.title, article.url, article.source>>

\* is_duplicate, lines 99-101
IsDuplicate(article) == article.hash_id \in collected_hashes

TrackInit ==
    /\ collector_built = FALSE
    /\ collected_hashes = {}
    /\ tracker_file = [exists |-> FALSE, hashes |-> {}]
    /\ loaded_hashes = {}
    /\ added = {}
    /\ checked = {}
    /\ was_duplicate = FALSE

\* AINewsCollector(), lines 39-43 and 87-92: a new collector loads the file
NewCollector ==
    /\ collector_built' = TRUE
    /\ collected_hashes' =
           IF tracker_file.exists THEN tracker_file.hashes ELSE {}
    /\ loaded_hashes' = collected_hashes'
    /\ added' = {}
    /\ checked' = {}
    /\ was_duplicate' = FALSE
    /\ UNCHANGED tracker_file
    /\ UNCHANGED exceptTrack

\* is_duplicate(article), lines 99-101
CheckDuplicate(article) ==
    /\ collector_built
    /\ checked' = {article}
    /\ was_duplicate' = IsDuplicate(article)
    /\ UNCHANGED <<collector_built, collected_hashes, tracker_file,
                   loaded_hashes, added>>
    /\ UNCHANGED exceptTrack

\* add_to_tracker(article), lines 103-105
AddToTracker(article) ==
    /\ collector_built
    /\ collected_hashes' = collected_hashes \cup {article.hash_id}
    /\ added' = added \cup {Triple(article)}
    /\ UNCHANGED <<collector_built, tracker_file, loaded_hashes, checked,
                   was_duplicate>>
    /\ UNCHANGED exceptTrack

\* save_duplicate_tracker, lines 94-97
SaveDuplicateTracker ==
    /\ collector_built
    /\ tracker_file' = [exists |-> TRUE, hashes |-> collected_hashes]
    /\ UNCHANGED <<collector_built, collected_hashes, loaded_hashes, added,
                   checked, was_duplicate>>
    /\ UNCHANGED exceptTrack

NextTrack ==
    \/ NewCollector
    \/ \E article \in NewsArticles : CheckDuplicate(article)
    \/ \E article \in NewsArticles : AddToTracker(article)
    \/ SaveDuplicateTracker

(***************************************************************************)
(* Content extraction: AdvancedScraper._extract_article_content and        *)
(* SimpleScraper.extract_article_content.  A page is given by the          *)
(* elements each rule selects; an element by the length of its text.       *)
(***************************************************************************)
MaxNodes == 2

\* rules of content_selector.split(', ') and of generic_selectors modelled
NPrimary == 2

NGeneric == 2

Scrapers == {"advanced", "simple"}

\* len(text) > 30 (advanced), > 20 (simple)
PrimaryThreshold(k) == IF k = "advanced" THEN 30 ELSE 20

\* len(text) > 40 (advanced), > 30 (simple)
GenericThreshold(k) == IF k = "advanced" THEN 40 ELSE 30

\* elements[:15] (advanced), [:10] (simple)
PrimaryElements(k) == IF k = "advanced" THEN 15 ELSE 10

\* elements[:20] (advanced), [:15] (simple)
GenericElements(k) == IF k = "advanced" THEN 20 ELSE 15

\* content_parts[:10] (advanced), [:8] (simple)
PartsCap(k) == IF k = "advanced" THEN 10 ELSE 8

\* text lengths on both sides of a threshold
LensAround(th) == {th, th + 1}

PagesOf(n_rules, th) == [1..n_rules -> SeqsUpTo(LensAround(th), MaxNodes)]

\* the pages of the model, per scraper
PrimaryPages ==
    [k \in Scrapers |-> PagesOf(NPrimary, PrimaryThreshold(k))]

GenericPages ==
    [k \in Scrapers |-> PagesOf(NGeneric, GenericThreshold(k))]

\* the texts of the first cap elements of one rule that are longer than th
RuleParts(kind, r, nodes, cap, th) ==
    LET first == Take(nodes, cap)
        F[i \in 0..Len(first)] ==
            IF i = 0 THEN << >>
            ELSE IF first[i] > th
                 THEN Append(F[i - 1], [kind |-> kind, rule |-> r, node |-> i])
                 ELSE F[i - 1]
    IN  F[Len(first)]

\* a primary loop that stops at the first rule with a part
PrimaryPartsFirstOnly(k, pages, n) ==
    LET F[r \in 0..n] ==
            IF r = 0 THEN << >>
            ELSE IF F[r - 1] # << >> THEN F[r - 1]
                 ELSE RuleParts("primary", r, pages[r], PrimaryElements(k),
                                PrimaryThreshold(k))
    IN  F[n]

\* the loop over selectors: every rule adds its parts, there is no break
PrimaryParts(k, pages, n) ==
    LET F[r \in 0..n] ==
            IF r = 0 THEN << >>
            ELSE F[r - 1] \o RuleParts("primary", r, pages[r],
                                       PrimaryElements(k), PrimaryThreshold(k))
    IN  F[n]

\* the loop over generic_selectors: break after the first rule with a part
GenericParts(k, pages, n) ==
    LET F[r \in 0..n] ==
            IF r = 0 THEN << >>
            ELSE IF F[r - 1] # << >> THEN F[r - 1]
                 ELSE RuleParts("generic", r, pages[r], GenericElements(k),
                                GenericThreshold(k))
    IN  F[n]

\* the try block of the extractor
ExtractParts(k, prim, gen) ==
    LET parts == PrimaryParts(k, prim, NPrimary)
    IN  Take(IF parts = << >> THEN GenericParts(k, gen, NGeneric) ELSE parts,
             PartsCap(k))

ExtractInit ==
    /\ scraper = "none"
    /\ primary_nodes = << >>
    /\ generic_nodes = << >>
    /\ content_parts = << >>
    /\ xpc = "idle"

\* the page of the article has arrived
PageArrives(k, prim, gen) ==
    /\ xpc = "idle"
    /\ scraper' = k
    /\ primary_nodes' = prim
    /\ generic_nodes' = gen
    /\ xpc' = "page"
    /\ UNCHANGED content_parts
    /\ UNCHANGED exceptExtract

\* no page: the extractor returns the empty string
PageMissing(k) ==
    /\ xpc = "idle"
    /\ scraper' = k
    /\ xpc' = "done"
    /\ UNCHANGED <<primary_nodes, generic_nodes, content_parts>>
    /\ UNCHANGED exceptExtract

ExtractArticleContent ==
    /\ xpc = "page"
    /\ content_parts' = ExtractParts(scraper, primary_nodes, generic_nodes)
    /\ xpc' = "done"
    /\ UNCHANGED <<scraper, primary_nodes, generic_nodes>>
    /\ UNCHANGED exceptExtract

\* any page of the model arrives
SomePageArrives ==
    /\ xpc = "idle"
    /\ \E k \in Scrapers :
          \E prim \in PrimaryPages[k] : \E gen \in GenericPages[k] :
             PageArrives(k, prim, gen)

NextExtract ==
    \/ SomePageArrives
    \/ \E k \in Scrapers : PageMissing(k)
    \/ ExtractArticleContent

(***************************************************************************)
(* Title keys: AdvancedScraper._remove_duplicates, the loop at the end of  *)
(* collect_all_ai_news (integrated_collector.py) and                       *)
(* ScrapingXCollector._remove_duplicates (scraping_x_collector.py)         *)
(***************************************************************************)
MaxPosts == 2

TitleKeyChars == 50

Deduplicators == {"advanced", "integrated", "x_posts"}

\* n times the character ch, then the characters of rest
Padded(ch, n, rest) == [i \in 1..n |-> ch] \o rest

\* titles that agree on their first 50 characters, but for the case, and
\* differ after them; a title that differs at character 50; a short title
LongTitles ==
    { Padded("a", 50, <<"x">>), Padded("A", 50, <<"g">>),
      Padded("a", 49, <<"p", "x">>), <<"A", "I">> }

LongPosts == [title : LongTitles, url : URLs]

\* a key of the whole title for every deduplicator
KeyOfWhole(dd, title) == TitleKey(title)

\* title[:50].lower() where the code takes a prefix, TitleKey where it does not
KeyOf(dd, title) ==
    IF dd = "advanced" THEN TitleKey(title)
    ELSE LowerStr(Take(title, TitleKeyChars))

\* the loop of collect_all_ai_news looks at the title key only
ChecksUrl(dd) == dd # "integrated"

\* the scan of each of the three loops: the indices of the posts kept
UniqueScan(dd, posts_) ==
    LET F[n \in 0..Len(posts_)] ==
            IF n = 0
            THEN [seen_t |-> {}, seen_u |-> {}, keep |-> << >>]
            ELSE LET st == F[n - 1]
                     title_key == KeyOf(dd, posts_[n].title)
                 IN  IF /\ title_key \notin st.seen_t
                        /\ ChecksUrl(dd) => posts_[n].url \notin st.seen_u
                     THEN [seen_t |-> st.seen_t \cup {title_key},
                           seen_u |-> st.seen_u \cup {posts_[n].url},
                           keep |-> Append(st.keep, n)]
                     ELSE st
    IN  F[Len(posts_)].keep

PrefixInit ==
    /\ dd_variant = "none"
    /\ dd_posts = << >>
    /\ dd_unique = << >>
    /\ dd_pc = "idle"

\* a list of candidates reaches one of the deduplicators
GivePosts(dd, posts_) ==
    /\ dd_pc = "idle"
    /\ dd_variant' = dd
    /\ dd_posts' = posts_
    /\ dd_pc' = "given"
    /\ UNCHANGED dd_unique
    /\ UNCHANGED exceptPrefix

RemoveDuplicatePosts ==
    /\ dd_pc = "given"
    /\ dd_unique' = UniqueScan(dd_variant, dd_posts)
    /\ dd_pc' = "done"
    /\ UNCHANGED <<dd_variant, dd_posts>>
    /\ UNCHANGED exceptPrefix

\* the next list
NextPosts ==
    /\ dd_pc = "done"
    /\ dd_pc' = "idle"
    /\ dd_variant' = "none"
    /\ dd_posts' = << >>
    /\ dd_unique' = << >>
    /\ UNCHANGED exceptPrefix

\* any list of the model reaches any of the deduplicators
SomePostsGiven ==
    /\ dd_pc = "idle"
    /\ \E dd \in Deduplicators : \E posts_ \in SeqsUpTo(LongPosts, MaxPosts) :
          GivePosts(dd, posts_)

NextPrefix ==
    \/ SomePostsGiven
    \/ RemoveDuplicatePosts
    \/ NextPosts

(***************************************************************************)
(* Links of one source: the loop of _collect_from_source over the links of *)
(* the entry page, its article tasks, and the merge with another source.   *)
(* A link is "skip" (no href, short title or no keyword), "cached" (a      *)
(* fresh cache entry), "fetch" (its task returns an article) or "fail"     *)
(* (its task returns None).                                                *)
(***************************************************************************)
MaxLinks == 4

MaxCap == 2

LinkKinds == {"skip", "cached", "fetch", "fail"}

\* the lists the other source may return
OtherLists == {<< >>, <<1>>, <<1, 2>>}

\* the loop of lines 233-281 over article_links[:max_articles * 2]
LinkScan(links, cap) ==
    LET looked == Take(links, cap * 2)
        F[i \in 0..Len(looked)] ==
            IF i = 0 THEN [arts |-> << >>, tasks |-> << >>]
            ELSE LET st == F[i - 1]
                 IN  IF Len(st.tasks) >= cap THEN st
                     ELSE IF looked[i] = "skip" THEN st
                     ELSE IF looked[i] = "cached"
                          THEN [st EXCEPT !.arts = Append(@, i)]
                          ELSE [st EXCEPT !.tasks = Append(@, i)]
    IN  F[Len(looked)]

\* a gather that gives the results last task first
GatheredReversed(tasks, res) ==
    LET F[t \in 0..Len(tasks)] ==
            IF t = 0 THEN << >>
            ELSE IF res[t] = "article" THEN <<tasks[t]>> \o F[t - 1]
                 ELSE F[t - 1]
    IN  F[Len(tasks)]

\* lines 284-292: the results of gather, in task order, articles only
Gathered(tasks, res) ==
    LET F[t \in 0..Len(tasks)] ==
            IF t = 0 THEN << >>
            ELSE IF res[t] = "article" THEN Append(F[t - 1], tasks[t])
                 ELSE F[t - 1]
    IN  F[Len(tasks)]

Tagged(src, list) == [i \in DOMAIN list |-> [src |-> src, link |-> list[i]]]

\* collect_all_articles, lines 363-370: the lists in registration order
MergeTwo(reg, mine, other) ==
    IF reg = 1 THEN Tagged(1, mine) \o Tagged(2, other)
    ELSE Tagged(1, other) \o Tagged(2, mine)

LinkInit ==
    /\ lk_pc = "idle"
    /\ lk_reg = 0
    /\ lk_max = 0
    /\ lk_links = << >>
    /\ lk_articles = << >>
    /\ lk_tasks = << >>
    /\ lk_results = << >>
    /\ lk_other = [done |-> FALSE, list |-> << >>]
    /\ lk_merged = << >>

\* the entry page has arrived and the loop over its links has run
ScanLinks(reg, cap, links) ==
    /\ lk_pc = "idle"
    /\ lk_reg' = reg
    /\ lk_max' = cap
    /\ lk_links' = links
    /\ LET st == LinkScan(links, cap)
       IN  /\ lk_articles' = st.arts
           /\ lk_tasks' = st.tasks
           /\ lk_results' = [t \in DOMAIN st.tasks |-> "pending"]
    /\ lk_pc' = "scanned"
    /\ UNCHANGED <<lk_other, lk_merged>>
    /\ UNCHANGED exceptLink

\* a _process_article task ends; the tasks end in any order
ArticleTaskEnds(t) ==
    /\ lk_pc = "scanned"
    /\ t \in DOMAIN lk_tasks
    /\ lk_results[t] = "pending"
    /\ lk_results' = [lk_results EXCEPT
           ![t] = IF lk_links[lk_tasks[t]] = "fetch" THEN "article" ELSE "none"]
    /\ UNCHANGED <<lk_pc, lk_reg, lk_max, lk_links, lk_articles, lk_tasks,
                   lk_other, lk_merged>>
    /\ UNCHANGED exceptLink

\* gather returns and _collect_from_source returns its list
SourceGathers ==
    /\ lk_pc = "scanned"
    /\ \A t \in DOMAIN lk_tasks : lk_results[t] # "pending"
    /\ lk_articles' = lk_articles \o Gathered(lk_tasks, lk_results)
    /\ lk_pc' = "gathered"
    /\ UNCHANGED <<lk_reg, lk_max, lk_links, lk_tasks, lk_results, lk_other,
                   lk_merged>>
    /\ UNCHANGED exceptLink

\* the task of the other source returns, before or after this one
OtherSourceReturns(list) ==
    /\ lk_pc \in {"scanned", "gathered"}
    /\ ~lk_other.done
    /\ lk_other' = [done |-> TRUE, list |-> list]
    /\ UNCHANGED <<lk_pc, lk_reg, lk_max, lk_links, lk_articles, lk_tasks,
                   lk_results, lk_merged>>
    /\ UNCHANGED exceptLink

\* collect_all_articles extends all_articles with each task's list
MergeSources ==
    /\ lk_pc = "gathered"
    /\ lk_other.done
    /\ lk_merged' = MergeTwo(lk_reg, lk_articles, lk_other.list)
    /\ lk_pc' = "merged"
    /\ UNCHANGED <<lk_reg, lk_max, lk_links, lk_articles, lk_tasks,
                   lk_results, lk_other>>
    /\ UNCHANGED exceptLink

\* any entry page of the model
SomeLinksScanned ==
    /\ lk_pc = "idle"
    /\ \E reg \in 1..2 : \E cap \in 1..MaxCap :
          \E links \in SeqsUpTo(LinkKinds, MaxLinks) :
             ScanLinks(reg, cap, links)

NextLink ==
    \/ SomeLinksScanned
    \/ \E t \in 1..MaxCap : ArticleTaskEnds(t)
    \/ SourceGathers
    \/ \E list \in OtherLists : OtherSourceReturns(list)
    \/ MergeSources

(***************************************************************************)
(* Cache writes: _process_article and _save_to_cache.  A cache file is     *)
(* absent, whole (a complete JSON document) or partial (opened for writing *)
(* and not completed).                                                     *)
(***************************************************************************)
MaxWrites == 3

MinContentLen == 100

\* len(content) on both sides of the minimum
ExtractedLens == {0, 99, 100, 101}

\* open fails; json.dump fails after open has truncated the file; success
SaveOutcomes == {"open_failed", "dump_failed", "saved"}

NoFile == [state |-> "absent", len |-> 0]

\* a test that rejects a content of exactly 100 characters too
TooShortInclusive(content_len) == content_len <= MinContentLen

\* line 311: not content or len(content) < 100
TooShort(content_len) == content_len = 0 \/ content_len < MinContentLen

\* _save_to_cache, lines 113-120: any exception is logged
SaveArticle(files, url, content_len, how) ==
    IF how = "saved"
    THEN [files EXCEPT ![url] = [state |-> "whole", len |-> content_len]]
    ELSE IF how = "dump_failed"
    THEN [files EXCEPT ![url] = [state |-> "partial", len |-> 0]]
    ELSE files

WriteInit ==
    /\ wr_pc = "idle"
    /\ wr_url = "u1"
    /\ wr_fetched = FALSE
    /\ wr_len = 0
    /\ wr_files = [u \in URLs |-> NoFile]
    /\ wr_before = [u \in URLs |-> NoFile]
    /\ wr_save = "none"
    /\ wr_candidate = FALSE
    /\ wr_count = 0

\* a task is created for a link that has no fresh cache entry
TaskCreated(url) ==
    /\ wr_pc \in {"idle", "done"}
    /\ wr_count < MaxWrites
    /\ wr_count' = wr_count + 1
    /\ wr_url' = url
    /\ wr_before' = wr_files
    /\ wr_pc' = "task"
    /\ wr_fetched' = FALSE
    /\ wr_len' = 0
    /\ wr_save' = "none"
    /\ wr_candidate' = FALSE
    /\ UNCHANGED wr_files
    /\ UNCHANGED exceptWrite

\* _process_article, lines 300-332, for a page that did not arrive (the
\* extractor returns "") or arrived with content_len characters extracted
ProcessFetched(arrived, content_len, how) ==
    /\ wr_pc = "task"
    /\ ~arrived => content_len = 0
    /\ wr_fetched' = arrived
    /\ wr_len' = content_len
    /\ IF TooShort(content_len)
       THEN /\ wr_candidate' = FALSE
            /\ wr_save' = "none"
            /\ UNCHANGED wr_files
       ELSE /\ wr_candidate' = TRUE
            /\ wr_save' = how
            /\ wr_files' = SaveArticle(wr_files, wr_url, content_len, how)
    /\ wr_pc' = "done"
    /\ UNCHANGED <<wr_url, wr_before, wr_count>>
    /\ UNCHANGED exceptWrite

NextWrite ==
    \/ \E url \in URLs : TaskCreated(url)
    \/ \E arrived \in BOOLEAN : \E content_len \in ExtractedLens :
          \E how \in SaveOutcomes : ProcessFetched(arrived, content_len, how)

(***************************************************************************)
(* Collection methods: EnhancedXCollector.collect_x_posts                  *)
(* (enhanced_x_collector.py) and IntegratedAICollector.collect_all_articles*)
(* (integrated_collector.py).  Each method raises or returns a list.       *)
(***************************************************************************)
MaxMethods == 3

MaxPostsWanted == 2

min_engagement_score == 10

\* posts: post 3 has the text of post 1; post 4 has too low a score
XPosts ==
    { [id |-> 1, text |-> "t1", score |-> 20],
      [id |-> 2, text |-> "t2", score |-> 30],
      [id |-> 3, text |-> "t1", score |-> 40],
      [id |-> 4, text |-> "t4", score |-> 9] }

\* the lists a method may return
MethodLists ==
    {<< >>} \cup {<<x>> : x \in XPosts}
        \cup {<<x, y>> : x \in {z \in XPosts : z.id = 1},
                         y \in {z \in XPosts : z.id \in {2, 4}}}

Collectors == {"x_posts", "integrated"}

\* the methods of a call: preferred_methods, or the two try blocks
MethodsOf(kind) == IF kind = "x_posts" THEN MaxMethods ELSE 2

\* an except clause that lets the exception through
CaughtNever(kind) == FALSE

\* except Exception around each method
Caught(kind) == TRUE

\* _remove_duplicates(new_posts, existing_posts), lines 364-374
RemoveKnown(new_posts, existing) ==
    SelectSeq(new_posts,
              LAMBDA x : /\ \A y \in Range(existing) : y.id # x.id
                         /\ \A y \in Range(existing) : y.text # x.text)

RECURSIVE InsertByEngagement(_, _)
InsertByEngagement(sorted, x) ==
    IF sorted = << >> THEN <<x>>
    ELSE IF Head(sorted).score >= x.score
         THEN <<Head(sorted)>> \o InsertByEngagement(Tail(sorted), x)
         ELSE <<x>> \o sorted

RECURSIVE SortByEngagement(_)
SortByEngagement(list) ==
    IF list = << >> THEN << >>
    ELSE InsertByEngagement(
             SortByEngagement(SubSeq(list, 1, Len(list) - 1)),
             list[Len(list)])

\* _filter_and_sort_posts, lines 376-384
FilterAndSortPosts(list) ==
    SortByEngagement(
        SelectSeq(list, LAMBDA x : x.score >= min_engagement_score))

MethInit ==
    /\ xm_pc = "idle"
    /\ xm_kind = "none"
    /\ xm_max = 0
    /\ xm_next = 1
    /\ xm_all_posts = << >>
    /\ xm_invoked = << >>
    /\ xm_got = << >>
    /\ xm_lists = << >>
    /\ xm_final = << >>

\* collect_x_posts(max_posts) or collect_all_articles() is called
CollectCalled(kind, max_posts) ==
    /\ xm_pc = "idle"
    /\ xm_kind' = kind
    /\ xm_max' = IF kind = "x_posts" THEN max_posts ELSE 0
    /\ xm_pc' = "loop"
    /\ xm_got' = [m \in 1..MethodsOf(kind) |-> "none"]
    /\ xm_lists' = [m \in 1..MethodsOf(kind) |-> << >>]
    /\ UNCHANGED <<xm_next, xm_all_posts, xm_invoked, xm_final>>
    /\ UNCHANGED exceptMeth

\* the next method is invoked and raises
MethodRaises ==
    /\ xm_pc = "loop"
    /\ xm_next <= MethodsOf(xm_kind)
    /\ xm_kind = "x_posts" => Len(xm_all_posts) < xm_max
    /\ xm_invoked' = Append(xm_invoked, xm_next)
    /\ xm_got' = [xm_got EXCEPT ![xm_next] = "raised"]
    /\ IF Caught(xm_kind)
       THEN /\ xm_next' = xm_next + 1
            /\ UNCHANGED xm_pc
       ELSE /\ xm_pc' = "raised"
            /\ UNCHANGED xm_next
    /\ UNCHANGED <<xm_kind, xm_max, xm_all_posts, xm_lists, xm_final>>
    /\ UNCHANGED exceptMeth

\* the next method is invoked and returns a list
MethodReturns(list) ==
    /\ xm_pc = "loop"
    /\ xm_next <= MethodsOf(xm_kind)
    /\ xm_kind = "x_posts" => Len(xm_all_posts) < xm_max
    /\ xm_invoked' = Append(xm_invoked, xm_next)
    /\ xm_got' = [xm_got EXCEPT ![xm_next] = "returned"]
    /\ xm_lists' = [xm_lists EXCEPT ![xm_next] = list]
    /\ xm_all_posts' =
           IF xm_kind = "x_posts"
           THEN xm_all_posts \o RemoveKnown(list, xm_all_posts)
           ELSE xm_all_posts \o list
    /\ xm_next' = xm_next + 1
    /\ UNCHANGED <<xm_pc, xm_kind, xm_max, xm_final>>
    /\ UNCHANGED exceptMeth

\* the loop is over or left by break; the call returns
CollectReturns ==
    /\ xm_pc = "loop"
    /\ \/ xm_next > MethodsOf(xm_kind)
       \/ xm_kind = "x_posts" /\ Len(xm_all_posts) >= xm_max
    /\ xm_final' =
           IF xm_kind = "x_posts"
           THEN Take(FilterAndSortPosts(xm_all_posts), xm_max)
           ELSE xm_all_posts
    /\ xm_pc' = "done"
    /\ UNCHANGED <<xm_kind, xm_max, xm_next, xm_all_posts, xm_invoked,
                   xm_got, xm_lists>>
    /\ UNCHANGED exceptMeth

NextMeth ==
    \/ \E kind \in Collectors : \E max_posts \in 1..MaxPostsWanted :
          CollectCalled(kind, max_posts)
    \/ MethodRaises
    \/ \E list \in MethodLists : MethodReturns(list)
    \/ CollectReturns

(***************************************************************************)
(* Article history: ScheduledAINewsSystem.check_duplicate_by_content and    *)
(* the two scheduled jobs (scheduler.py).  Times are in hours.             *)
(***************************************************************************)
MaxJobs == 3

MaxHistoryDays == 2

MaxNewArticles == 2

collection_time == 9

posting_time == 10

\* articles: b has the title of a, c has the URL of a
HistArticles ==
    { [title |-> "t1", url |-> "u1"],
      [title |-> "t1", url |-> "u2"],
      [title |-> "t2", url |-> "u1"] }

\* the lists collect_all_sources may return: no article twice
NewArticleLists ==
    {l \in SeqsUpTo(HistArticles, MaxNewArticles) :
        \A i, j \in DOMAIN l : i # j => l[i] # l[j]}

ReadOutcomes == {"ok", "fails"}

NoHistory == [state |-> "absent", entries |-> {}]

\* a duplicate test that needs title and URL to agree
MatchesBoth(article, hist_item) ==
    article.title = hist_item.title /\ article.url = hist_item.url

\* the duplicate test, lines 145-146
Matches(article, hist_item) ==
    article.title = hist_item.title \/ article.url = hist_item.url

\* lines 123-129: the history read; a missing or unreadable file gives []
ReadHistory(file, rd) ==
    IF file.state = "whole" /\ rd = "ok" THEN file.entries ELSE {}

\* lines 132-136: entries older than history_days are dropped
RecentHistory(history, at, days) ==
    {h \in history : h.date > at - days * HoursPerDay}

\* lines 139-160: the loop over new_articles, the history growing with
\* every article taken
RECURSIVE HistoryScan(_, _, _, _)
HistoryScan(new_articles, history, unique, at) ==
    IF new_articles = << >>
    THEN [unique |-> unique, history |-> history]
    ELSE LET article == Head(new_articles)
         IN  IF \E hist_item \in history : Matches(article, hist_item)
             THEN HistoryScan(Tail(new_articles), history, unique, at)
             ELSE HistoryScan(Tail(new_articles),
                              history \cup {[title |-> article.title,
                                             url |-> article.url,
                                             date |-> at]},
                              Append(unique, article), at)

\* lines 162-167: the history write, its exception logged
WriteHistory(file, history, wr) ==
    IF wr = "saved" THEN [state |-> "whole", entries |-> history]
    ELSE IF wr = "dump_failed" THEN [state |-> "partial", entries |-> {}]
    ELSE file

\* check_duplicate_by_content, lines 117-169
CheckDuplicateByContent(file, new_articles, at, enabled, days, rd, wr) ==
    IF ~enabled
    THEN [unique |-> new_articles, file |-> file]
    ELSE LET history == RecentHistory(ReadHistory(file, rd), at, days)
             scan == HistoryScan(new_articles, history, << >>, at)
         IN  [unique |-> scan.unique,
              file |-> WriteHistory(file, scan.history, wr)]

\* the read or the write of a call failed
CallFailed(file, enabled, rd, wr) ==
    enabled /\ ((file.state # "absent" /\ (rd = "fails" \/ file.state = "partial"))
                \/ wr # "saved")

HistNow(day, hour) == day * HoursPerDay + hour

HistInit ==
    /\ hs_pc = "off"
    /\ hs_enabled = FALSE
    /\ hs_days = 0
    /\ hs_day = 0
    /\ hs_file = NoHistory
    /\ hs_in = << >>
    /\ hs_out = << >>
    /\ hs_at = -1
    /\ hs_prev = {}
    /\ hs_last_failure = -1
    /\ hs_accepted = {}
    /\ hs_posted = {}
    /\ hs_jobs = 0

\* ScheduledAINewsSystem.__init__ and setup_schedule
SetupSchedule(enabled, days) ==
    /\ hs_pc = "off"
    /\ hs_enabled' = enabled
    /\ hs_days' = days
    /\ hs_day' = 1
    /\ hs_pc' = "collection"
    /\ UNCHANGED <<hs_file, hs_in, hs_out, hs_at, hs_prev, hs_last_failure,
                   hs_accepted, hs_posted, hs_jobs>>
    /\ UNCHANGED exceptHist

\* the history variables of a call of check_duplicate_by_content
CallRecorded(new_articles, at, rd, wr, res) ==
    /\ hs_file' = res.file
    /\ hs_in' = new_articles
    /\ hs_out' = res.unique
    /\ hs_at' = at
    /\ hs_prev' = hs_prev \cup
                     {[title |-> hs_out[i].title, url |-> hs_out[i].url,
                       at |-> hs_at] : i \in DOMAIN hs_out}
    /\ hs_last_failure' =
           IF CallFailed(hs_file, hs_enabled, rd, wr) THEN at
           ELSE hs_last_failure

\* daily_collection_job at collection_time, lines 171-198, with a collector
\* that has collect_all_sources; the lambda of line 293 drops its result
CollectionJob(new_articles, rd, wr) ==
    /\ hs_pc = "collection"
    /\ hs_jobs < MaxJobs
    /\ hs_jobs' = hs_jobs + 1
    /\ hs_pc' = "workflow"
    /\ hs_posted' = {}
    /\ IF new_articles = << >>
       THEN /\ hs_accepted' = {}
            /\ UNCHANGED <<hs_file, hs_in, hs_out, hs_at, hs_prev,
                           hs_last_failure>>
       ELSE LET at == HistNow(hs_day, collection_time)
                res == CheckDuplicateByContent(hs_file, new_articles, at,
                                               hs_enabled, hs_days, rd, wr)
            IN  /\ CallRecorded(new_articles, at, rd, wr, res)
                /\ hs_accepted' =
                       IF hs_enabled /\ wr = "saved" THEN Range(res.unique)
                       ELSE {}
    /\ UNCHANGED <<hs_enabled, hs_days, hs_day>>
    /\ UNCHANGED exceptHist

\* run_daily_workflow at posting_time, lines 272-285: daily_collection_job,
\* daily_processing_job (the articles at the positions in failed are
\* skipped), daily_posting_job
DailyWorkflow(new_articles, rd, wr, failed) ==
    /\ hs_pc = "workflow"
    /\ hs_jobs < MaxJobs
    /\ hs_jobs' = hs_jobs + 1
    /\ hs_pc' = "midnight"
    /\ IF new_articles = << >>
       THEN /\ hs_posted' = {}
            /\ UNCHANGED <<hs_file, hs_in, hs_out, hs_at, hs_prev,
                           hs_last_failure>>
       ELSE LET at == HistNow(hs_day, posting_time)
                res == CheckDuplicateByContent(hs_file, new_articles, at,
                                               hs_enabled, hs_days, rd, wr)
            IN  /\ CallRecorded(new_articles, at, rd, wr, res)
                /\ hs_posted' = {res.unique[i] :
                                    i \in DOMAIN res.unique \ failed}
    /\ UNCHANGED <<hs_enabled, hs_days, hs_day, hs_accepted>>
    /\ UNCHANGED exceptHist

\* run_scheduler, lines 304-310: the next day's jobs become due
NextDay ==
    /\ hs_pc = "midnight"
    /\ hs_jobs < MaxJobs
    /\ hs_day' = hs_day + 1
    /\ hs_pc' = "collection"
    /\ hs_accepted' = {}
    /\ hs_posted' = {}
    /\ UNCHANGED <<hs_enabled, hs_days, hs_file, hs_in, hs_out, hs_at,
                   hs_prev, hs_last_failure, hs_jobs>>
    /\ UNCHANGED exceptHist

SomeCollectionJob ==
    /\ hs_pc = "collection"
    /\ hs_jobs < MaxJobs
    /\ \E new_articles \in NewArticleLists : \E rd \in ReadOutcomes :
          \E wr \in SaveOutcomes : CollectionJob(new_articles, rd, wr)

SomeDailyWorkflow ==
    /\ hs_pc = "workflow"
    /\ hs_jobs < MaxJobs
    /\ \E new_articles \in NewArticleLists : \E rd \in ReadOutcomes :
          \E wr \in SaveOutcomes : \E failed \in SUBSET (1..MaxNewArticles) :
              DailyWorkflow(new_articles, rd, wr, failed)

NextHist ==
    \/ \E enabled \in BOOLEAN : \E days \in 1..MaxHistoryDays :
          SetupSchedule(enabled, days)
    \/ SomeCollectionJob
    \/ SomeDailyWorkflow
    \/ NextDay

(***************************************************************************)
(* Specifications                                                          *)
(***************************************************************************)
Init ==
    /\ DedupInit /\ SelectInit /\ BudgetInit /\ RateInit /\ CacheInit
    /\ ScoreInit /\ SemInit
    /\ ProcInit /\ EntryInit /\ TrackInit
    /\ ExtractInit /\ PrefixInit /\ LinkInit
    /\ WriteInit /\ MethInit /\ HistInit

SpecDedup == Init /\ [][NextDedup]_vars

SpecSelect == Init /\ [][NextSelect]_vars

SpecBudget == Init /\ [][NextBudget]_vars

SpecRate == Init /\ [][NextRate]_vars

SpecCache == Init /\ [][NextCache]_vars

SpecExpiry == Init /\ [][NextExpiry]_vars

SpecScore == Init /\ [][NextScore]_vars

SpecSem == Init /\ [][NextSem]_vars

\* every network read ends and the event loop runs every task that can run
SpecSemFair == Init /\ [][NextSem]_vars /\ WF_vars(NextSem)

SpecProc == Init /\ [][NextProc]_vars

SpecEntry == Init /\ [][NextEntry]_vars

SpecTrack == Init /\ [][NextTrack]_vars

SpecExtract == Init /\ [][NextExtract]_vars

SpecPrefix == Init /\ [][NextPrefix]_vars

SpecLink == Init /\ [][NextLink]_vars

SpecWrite == Init /\ [][NextWrite]_vars

SpecMeth == Init /\ [][NextMeth]_vars

SpecHist == Init /\ [][NextHist]_vars

(***************************************************************************)
(* Claims about the de-duplication                                         *)
(***************************************************************************)
\* two candidates duplicate one another: same URL or same title key
Duplicates(a, b) == a.url = b.url \/ TitleKey(a.title) = TitleKey(b.title)

KeptPositions == Range(kept)

Positions == DOMAIN all_articles

\* the output is the input restricted to the kept positions, in order
IsSubsequence ==
    /\ Len(unique_articles) = Len(kept)
    /\ \A k \in DOMAIN kept :
          /\ kept[k] \in Positions
          /\ unique_articles[k] = all_articles[kept[k]]
    /\ \A k, l \in DOMAIN kept : k < l => kept[k] < kept[l]

Swap(s, i, j) ==
    [k \in DOMAIN s |-> IF k = i THEN s[j] ELSE IF k = j THEN s[i] ELSE s[k]]

\* the kept candidates of list l that duplicate no other candidate of l
NonDuplicatesKept(l) ==
    {l[n] : n \in {m \in Range(RemoveDuplicates(l).kept) :
                      \A j \in DOMAIN l : j # m => ~Duplicates(l[j], l[m])}}

\* exchanging two candidates that duplicate one another leaves the kept
\* non-duplicate candidates as they were
SwapKeepsNonDuplicates ==
    \A i, j \in Positions :
        (i < j /\ Duplicates(all_articles[i], all_articles[j]))
            => NonDuplicatesKept(Swap(all_articles, i, j))
                 = NonDuplicatesKept(all_articles)

\* C7: in the scan a candidate is kept iff no earlier kept candidate has its
\* URL or its title key, and only kept candidates mark their keys; so the
\* output has pairwise distinct URLs and pairwise distinct title keys, and
\* the result of collect_all_articles has at most max_total_articles elements.
C7_KeptIffUnmarked ==
    dpc = "returned" =>
        /\ IsSubsequence
        /\ \A n \in Positions :
              n \in KeptPositions <=>
                 ~\E j \in KeptPositions :
                      j < n /\ Duplicates(all_articles[j], all_articles[n])
        /\ seen_urls = {all_articles[n].url : n \in KeptPositions}
        /\ seen_titles = {TitleKey(all_articles[n].title) : n \in KeptPositions}
        /\ \A k, l \in DOMAIN unique_articles :
              k # l => /\ unique_articles[k].url # unique_articles[l].url
                       /\ TitleKey(unique_articles[k].title)
                            # TitleKey(unique_articles[l].title)
        /\ Len(final_articles) <= max_total
        /\ final_articles = Take(unique_articles, max_total)

\* a rejected candidate is followed by a kept one that shares a key with it,
\* and the cut to max_total_articles drops a candidate
C7_Witness ==
    /\ dpc = "returned"
    /\ \E n, k \in Positions :
          /\ n < k
          /\ n \notin KeptPositions
          /\ k \in KeptPositions
          /\ Duplicates(all_articles[n], all_articles[k])
    /\ Len(final_articles) < Len(unique_articles)

\* scenario A: two sources yield one candidate each, with the same URL
ScenarioA ==
    /\ Len(results[1]) = 1
    /\ Len(results[2]) = 1
    /\ results[1][1].url = results[2][1].url

\* C8 as stated: the output is a subsequence of the input in which, among the
\* candidates sharing a URL, only the first of the merged list can survive;
\* in scenario A the output is the candidate of the earlier-registered source.
C8_Original ==
    dpc = "returned" =>
        /\ IsSubsequence
        /\ \A k \in KeptPositions :
              ~\E j \in Positions :
                   j < k /\ all_articles[j].url = all_articles[k].url
        /\ ScenarioA => unique_articles = <<results[1][1]>>

\* C8 as amended: the output is a subsequence of the input in which at most
\* one of the candidates sharing a URL survives; it is the first of them
\* unless every earlier one was rejected for its title key, marked by an
\* earlier kept candidate; in scenario A the output is the candidate of the
\* earlier-registered source.
C8_FirstUnmarkedUrlWins ==
    dpc = "returned" =>
        /\ IsSubsequence
        /\ \A k \in KeptPositions : \A j \in Positions :
              (j < k /\ all_articles[j].url = all_articles[k].url) =>
                  /\ j \notin KeptPositions
                  /\ \E i \in KeptPositions :
                        /\ i < j
                        /\ TitleKey(all_articles[i].title)
                             = TitleKey(all_articles[j].title)
                        /\ all_articles[i].url # all_articles[j].url
        /\ ScenarioA => unique_articles = <<results[1][1]>>

\* a later candidate survives although an earlier one has its URL
C8_Witness ==
    /\ dpc = "returned"
    /\ \E j, k \in Positions :
          /\ j < k
          /\ all_articles[j].url = all_articles[k].url
          /\ k \in KeptPositions

\* scenario A with two different payloads
C8_ScenarioAReached ==
    /\ dpc = "returned"
    /\ ScenarioA
    /\ results[1][1].title # results[2][1].title

\* C9 as stated: lists that differ only in the relative order of duplicates
\* keep the same non-duplicate candidates, and of two candidates that
\* duplicate one another the later one never survives.
C9_Original ==
    dpc = "returned" =>
        /\ SwapKeepsNonDuplicates
        /\ \A i, j \in Positions :
              (i < j /\ Duplicates(all_articles[i], all_articles[j]))
                  => j \notin KeptPositions

\* C9 as amended: lists that differ only in the relative order of duplicates
\* keep the same non-duplicate candidates (every candidate that duplicates no
\* other is kept); of two candidates that duplicate one another at most one
\* survives, and a candidate that duplicates no earlier one always survives.
C9_DuplicateOrderOnly ==
    dpc = "returned" =>
        /\ SwapKeepsNonDuplicates
        /\ \A n \in Positions :
              (\A j \in Positions :
                   j # n => ~Duplicates(all_articles[j], all_articles[n]))
                  => n \in KeptPositions
        /\ \A i, j \in Positions :
              (i < j /\ Duplicates(all_articles[i], all_articles[j]))
                  => ~(i \in KeptPositions /\ j \in KeptPositions)
        /\ \A n \in Positions :
              (\A j \in Positions :
                   j < n => ~Duplicates(all_articles[j], all_articles[n]))
                  => n \in KeptPositions

\* exchanging two duplicates changes the survivor, beside a non-duplicate
C9_Witness ==
    /\ dpc = "returned"
    /\ NonDuplicatesKept(all_articles) # {}
    /\ \E i, j \in Positions :
          /\ i < j
          /\ Duplicates(all_articles[i], all_articles[j])
          /\ RemoveDuplicates(Swap(all_articles, i, j)).unique_articles
               # unique_articles

(***************************************************************************)
(* Claims about the selection                                              *)
(***************************************************************************)
Min(a, b) == IF a < b THEN a ELSE b

Selected == Range(best_positions)

\* the returned candidates are candidates of the input, each once
SelectionOfInput ==
    /\ Len(best_positions) = Len(best_articles)
    /\ \A k \in DOMAIN best_positions :
          /\ best_positions[k] \in DOMAIN articles
          /\ best_articles[k] = articles[best_positions[k]]
    /\ \A k, l \in DOMAIN best_positions :
          k # l => best_positions[k] # best_positions[l]

\* the highest-scored, listed by descending score, ties in discovery order
TopByScore ==
    /\ \A k, l \in DOMAIN best_articles :
          k < l =>
              \/ Score(best_articles[k]) > Score(best_articles[l])
              \/ /\ Score(best_articles[k]) = Score(best_articles[l])
                 /\ best_positions[k] < best_positions[l]
    /\ \A n \in Selected : \A m \in DOMAIN articles \ Selected :
          \/ Score(articles[n]) > Score(articles[m])
          \/ Score(articles[n]) = Score(articles[m]) /\ n < m

\* C10 as stated: for every candidate list and target count the result is the
\* min(len, target) highest-scored candidates in descending score order,
\* equally scored candidates in discovery order.
C10_Original ==
    spc = "selected" =>
        /\ SelectionOfInput
        /\ Len(best_articles) = Min(Len(articles), max_count)
        /\ TopByScore

\* C10 as amended: with more candidates than the target count the result is
\* the target_count highest-scored candidates in descending score order,
\* equally scored candidates in discovery order; with at most target_count
\* candidates the result is the candidate list itself, in discovery order.
C10_TopWhenMoreThanTarget ==
    spc = "selected" =>
        /\ SelectionOfInput
        /\ Len(best_articles) = Min(Len(articles), max_count)
        /\ Len(articles) > max_count => TopByScore
        /\ Len(articles) <= max_count => best_articles = articles

\* 5 candidates and target 3: a tie is cut by discovery order and the result
\* is not in discovery order
C10_Witness ==
    /\ spc = "selected"
    /\ Len(articles) = 5
    /\ max_count = 3
    /\ \E n \in Selected : \E m \in DOMAIN articles \ Selected :
          Score(articles[n]) = Score(articles[m])
    /\ \E k, l \in DOMAIN best_positions :
          k < l /\ best_positions[k] > best_positions[l]

(***************************************************************************)
(* Claims about the daily budget                                           *)
(***************************************************************************)
Ended == {"done", "raised"}

RecordedToday == LoadTodayPostsCount(daily_posts, today)

\* C3: with max_posts_per_day = 1 and runs that do not overlap, at most one
\* digest is published per date, and a run calls create_post only while the
\* record of the date shows no publication.
C3_OneDigestPerDay ==
    (max_posts_per_day = 1 /\ ~overlap) =>
        /\ \A d \in Dates : published[d] <= 1
        /\ \A r \in Runs : rpc[r] = "posting" => RecordedToday = 0
        /\ \A r \in Runs : invoked[r] => today_count[r] = 0

\* a later run of the same date found the publication recorded and returned
\* without calling create_post
C3_Witness ==
    /\ max_posts_per_day = 1
    /\ ~overlap
    /\ published[today] = 1
    /\ RecordedToday = 1
    /\ \E r \in Runs :
          /\ rpc[r] = "done"
          /\ start_day[r] = today
          /\ today_count[r] = 1
          /\ ~invoked[r]

C5_CheckIsNotALock ==
    [][\A r \in Runs :
          /\ (~Active(r) /\ Active(r)') => daily_posts' = daily_posts
          /\ (rpc[r] = "posting" /\ rpc'[r] # "posting") => invoked'[r]]_vars

\* both runs read count 0 on the same date and both published
C5_Witness ==
    /\ max_posts_per_day = 1
    /\ overlap
    /\ published[today] = 2
    /\ \A r \in Runs :
          /\ rpc[r] = "done"
          /\ start_day[r] = today
          /\ today_count[r] = 0
          /\ post_result[r] = "receipt"

\* C6 as stated: a run that finds count = 1 with max_per_day = 1 still
\* collects and selects, and skips only the publish step.
C6_Original ==
    \A r \in Runs :
        (rpc[r] = "done" /\ start_day[r] > 0 /\ max_posts_per_day = 1
            /\ today_count[r] = 1)
        => (collected[r] /\ selected[r] /\ ~invoked[r])

\* C6 as amended: a run that finds the limit reached (count = 1 with
\* max_per_day = 1) returns at once: it neither collects nor selects nor
\* calls create_post, and it ends normally.
C6_LimitReachedReturnsAtOnce ==
    \A r \in Runs :
        (start_day[r] > 0 /\ today_count[r] >= max_posts_per_day) =>
            /\ rpc[r] = "done"
            /\ ~collected[r]
            /\ ~selected[r]
            /\ ~invoked[r]
            /\ post_result[r] = "none"

\* a run found count = 1 with max_per_day = 1 and has returned
C6_Witness ==
    /\ max_posts_per_day = 1
    /\ \E r \in Runs :
          /\ rpc[r] = "done"
          /\ start_day[r] > 0
          /\ today_count[r] = 1

(***************************************************************************)
(* Claims about the rate limiter                                           *)
(***************************************************************************)
\* C1 as stated: any two consecutive fetches issued for one source key, the
\* fetches of concurrently gathered article tasks included, start at least
\* the interval of the source's rate class (1.0 s for 'default') apart.
C1_Original ==
    \A s \in SourceIds :
        n_fetches[s] >= 2 => last_fetch[s] - prev_fetch[s] >= RateLimit(s)

(***************************************************************************)
(* Claims about the cache                                                  *)
(***************************************************************************)
SameURL(a, b) == epc[a] # "idle" /\ epc[b] # "idle" /\ eurl[a] = eurl[b]

\* when b looked the URL up, the last write to its cache entry was that of
\* execution a, less than max_age_hours before
StoredBeforeLookup(a, b) ==
    /\ a # b
    /\ SameURL(a, b)
    /\ prior_writer[b] = a
    /\ look_time[b] - prior_written[b] < max_age_hours

C11_Original ==
    \A r \in Runs :
        short[r] =>
            /\ rpc[r] = "raised"
            /\ ~summarized[r]
            /\ ~invoked[r]

\* C11 as amended: when fewer than 3 candidates are left, the run returns
\* normally (no failure is raised): the articles are never handed to
\* process_article, create_post is not called, and the step that finds the
\* list short leaves the daily record as it was.
C11_ShortListEndsRunQuietly ==
    /\ [](\A r \in Runs :
            short[r] =>
                /\ rpc[r] = "done"
                /\ ~summarized[r]
                /\ ~invoked[r]
                /\ post_result[r] = "none")
    /\ [][\A r \in Runs :
            (~short[r] /\ short'[r]) => daily_posts' = daily_posts]_vars

\* a run collected one or two articles, selected them and returned
C11_Witness ==
    \E r \in Runs :
        /\ short[r]
        /\ collected[r]
        /\ selected[r]
        /\ rpc[r] = "done"

(***************************************************************************)
(* Claims about the score                                                  *)
(***************************************************************************)
\* C12: the score is monotone: with the title, the source and the keyword
\* matches fixed, a longer content (between 100 and 600 characters) never
\* lowers the score, and changing only the source to a trusted one never
\* lowers it.
C12_ScoreMonotone ==
    /\ scpc = "longer" => score_b >= score_a
    /\ scpc = "trusted" => score_b >= score_a

\* a content of 100 characters was lengthened to 600 and gained 3 points
C12_Witness ==
    /\ scpc = "longer"
    /\ art_a.content_len = 100
    /\ art_b.content_len = 600
    /\ score_b = score_a + 3

(***************************************************************************)
(* Claims about failing sources                                            *)
(***************************************************************************)
Failed == {i \in SourceIds : entry_page[i] = "failed"}

\* the articles of the sources from 1 to n that did not fail, in task order
RECURSIVE Remaining(_)
Remaining(n) ==
    IF n = 0 THEN <<>>
    ELSE Remaining(n - 1) \o (IF n \in Failed THEN <<>> ELSE found[n])

\* C13: whichever sources fail to fetch their entry page (timeout, status
\* other than 200, network error), collect_all_articles returns, each failed
\* source contributes nothing, and the merged list handed to the
\* de-duplication is exactly what the other sources contribute when no
\* source fails.
C13_FailedSourcesContributeNothing ==
    /\ \A i \in Failed : results[i] = <<>>
    /\ \A i \in returned \ Failed : results[i] = found[i]
    /\ dpc = "returned" => all_articles = Remaining(Len(Sources))

\* the first source failed, the second did not, and its articles went on
C13_Witness ==
    /\ dpc = "returned"
    /\ entry_page[1] = "failed"
    /\ found[1] # <<>>
    /\ entry_page[2] = "ok"
    /\ found[2] # <<>>
    /\ all_articles = found[2]

(***************************************************************************)
(* Claims about the concurrency cap                                        *)
(***************************************************************************)
RECURSIVE SumTo(_, _)
SumTo(f, n) == IF n = 0 THEN 0 ELSE SumTo(f, n - 1) + f[n]

\* the _process_article calls in flight: started and not yet ended
InFlight == SumTo(n_waiting, MaxSources) + SumTo(n_reading, MaxSources)

Holders == {s \in AllSources : Holding(s)}

\* the network reads under way, of entry pages and of articles
Reads ==
    Cardinality({s \in AllSources : src_pc[s] = "entry_read"})
      + SumTo(n_reading, MaxSources)

\* C14 as stated: at every moment the number of _process_article calls in
\* flight across all sources is at most max_concurrent.
C14_Original == InFlight <= max_concurrent

\* C14 as amended: at every moment at most max_concurrent source tasks are
\* inside the semaphore and at most max_concurrent network reads are under
\* way (the connector's limit); the _process_article calls in flight are at
\* most max_concurrent times the most a source creates.
C14_SourcesAndReadsCapped ==
    /\ Cardinality(Holders) <= max_concurrent
    /\ Cardinality(Holders) + permits = max_concurrent
    /\ Reads <= max_concurrent
    /\ Reads = connections
    /\ InFlight <= max_concurrent * MaxTasks

\* with max_concurrent = 1 two sources were queued, one is inside the
\* semaphore with two calls in flight, one of them reading
C14_Witness ==
    /\ max_concurrent = 1
    /\ n_sources = 2
    /\ Cardinality(Holders) = 1
    /\ InFlight = 2
    /\ Reads = 1

\* C15: if every network read ends and scheduling is fair,
\* collect_all_articles eventually returns, also with more sources than
\* max_concurrent: every queued source task eventually gets its permit, and
\* a source whose entry read ends by its timeout returns without a
\* candidate while the others go on.
C15_EventuallyReturns ==
    /\ (cpc = "gathering") ~> (cpc = "returned")
    /\ \A s \in AllSources :
          (src_pc[s] = "queued") ~> (src_pc[s] = "done")
    /\ [](\A s \in AllSources :
            (src_how[s] = "timeout") =>
                (src_pc[s] = "done" /\ n_ended[s] = 0))

\* collect_all_articles returned with more sources than permits, the first
\* source having timed out and the others having fetched articles
C15_Witness ==
    /\ cpc = "returned"
    /\ n_sources > max_concurrent
    /\ src_how[1] = "timeout"
    /\ \A s \in 2..n_sources : src_how[s] = "response" /\ n_ended[s] > 0

(***************************************************************************)
(* Claims about expired cache entries                                      *)
(***************************************************************************)
\* at its lookup, the last write of e's URL was max_age_hours or more back
LookedAtExpired(e) ==
    /\ epc[e] # "idle"
    /\ prior_writer[e] # 0
    /\ look_time[e] - prior_written[e] >= max_age_hours

\* C16: a cache entry whose age is at least max_age_hours (6 h) is never
\* returned by the lookup nor accepted as a candidate: the link is handled
\* as if there were no entry (a _process_article task is created and the URL
\* is fetched), whether or not a sweep has deleted the file.
C16_ExpiredEntryIsAbsent ==
    \A e \in Execs :
        LookedAtExpired(e) =>
            /\ outcome[e] # "hit"
            /\ eresult[e] # prior_writer[e]
            /\ epc[e] = "done" => fetched[e]

\* an entry written 6 hours before is still on disk and the URL is fetched
\* again
C16_Witness ==
    \E e \in Execs :
        /\ LookedAtExpired(e)
        /\ look_time[e] - prior_written[e] = max_age_hours
        /\ epc[e] = "done"
        /\ fetched[e]
        /\ outcome[e] = "rejected"
        /\ cache[eurl[e]].exists
        /\ cache[eurl[e]].payload = prior_writer[e]

\* an entry written more than a day before was swept and the URL is fetched
\* again
C16_SweptReached ==
    \E e \in Execs :
        /\ LookedAtExpired(e)
        /\ ~cache[eurl[e]].exists
        /\ epc[e] = "task"

(***************************************************************************)
(* Claims about failed model calls                                         *)
(***************************************************************************)
Handled == {i \in 1..Len(articles_in) : responses[i].summary # "none"}

\* C17 as stated: whenever a model call fails for an article, the processed
\* article has the fallback summary and the fixed fallback commentary
C17_Original ==
    \A i \in Handled :
        (responses[i].summary = "error" \/ responses[i].comment = "error") =>
            /\ i <= Len(processed_articles)
            /\ processed_articles[i].summary = FallbackSummary(articles_in[i])
            /\ processed_articles[i].user_value_comment = FallbackComment

\* C17: every article handled so far has its processed article, in batch
\* order, whatever its model calls did; a failed summary call gives the first
\* 300 characters of the content followed by "...", a failed commentary call
\* gives the fixed commentary, each on its own
C17_EachCallFallsBackOnItsOwn ==
    /\ Len(processed_articles) = bpos
    /\ \A i \in Handled :
          /\ processed_articles[i].original_article = i
          /\ responses[i].summary = "error" =>
                processed_articles[i].summary = FallbackSummary(articles_in[i])
          /\ responses[i].comment = "error" =>
                processed_articles[i].user_value_comment.kind = "fixed"
          /\ responses[i].summary = "text" =>
                processed_articles[i].summary.kind = "model"
          /\ responses[i].comment = "text" =>
                processed_articles[i].user_value_comment.kind = "model"

\* the batch has returned two processed articles: the first had both calls
\* fail on a content of 301 characters, the second had only its summary call
\* fail and got the model's commentary
C17_Witness ==
    /\ bpc = "returned"
    /\ Len(articles_in) = 2
    /\ Len(processed_articles) = 2
    /\ articles_in[1] = 301
    /\ responses[1] = [summary |-> "error", comment |-> "error"]
    /\ processed_articles[1].summary.chars = 300
    /\ processed_articles[1].user_value_comment.kind = "fixed"
    /\ responses[2] = [summary |-> "error", comment |-> "text"]
    /\ processed_articles[2].summary.kind = "content"
    /\ processed_articles[2].user_value_comment.kind = "model"

(***************************************************************************)
(* Claims about the test flag                                              *)
(***************************************************************************)
TestFlagGiven ==
    /\ entry_pt = "daily_publisher"
    /\ Len(argv) > 0
    /\ argv[1] = "--test"

\* C18: when daily_publisher.py is started with --test, create_post is never
\* called and no post request is issued, however collection, processing and
\* content generation end
C18_TestRunNeverPosts ==
    TestFlagGiven => create_post_calls = 0 /\ "post" \notin requests

\* a test run went through collection, processing and content generation
C18_Witness ==
    /\ TestFlagGiven
    /\ stage = "test_passed"
    /\ requests = {"collect", "model"}
    /\ create_post_calls = 0

\* the same pipeline without the flag does call create_post
C18_ProductionPosts ==
    /\ entry_pt = "daily_publisher"
    /\ ~TestFlagGiven
    /\ create_post_calls = 1

(***************************************************************************)
(* Claims about a missing API key                                          *)
(***************************************************************************)
\* C20 as stated: without the API key every entry point fails at startup,
\* the construction aborting before any network request is issued
C20_Original ==
    (entry_pt # "none" /\ ~api_key) =>
        /\ requests = {}
        /\ construction # "ok"
        /\ stage \in {"started", "ended"}

(***************************************************************************)
(* Claims about the duplicate tracker                                      *)
(***************************************************************************)
SameTripleAdded(article) == Triple(article) \in added

SameTextAdded(article) ==
    \E tr \in added :
        tr[1] \o tr[2] \o tr[3] =
            article.title \o article.url \o article.source

\* C19 as stated: is_duplicate(a) is true iff an article with the same
\* (title, URL, source) triple was added earlier or its hash was loaded, and
\* the tracked set only grows
C19_Original ==
    /\ [](\A article \in NewsArticles :
             collector_built =>
                (IsDuplicate(article) <=>
                    (SameTripleAdded(article)
                        \/ article.hash_id \in loaded_hashes)))
    /\ [][\/ NewCollector
          \/ collected_hashes \subseteq collected_hashes']_vars

\* C19: is_duplicate(a) is true iff an article whose title, URL and source,
\* written one after the other, give the same text as those of a was added to
\* this collector earlier, or the hash was loaded from the file; the content
\* plays no part; the set of one collector only grows, and an article found
\* to be a duplicate stays one
C19_DuplicateIffSameHashedText ==
    /\ [](\A article \in NewsArticles :
             collector_built =>
                /\ IsDuplicate(article) <=>
                      (SameTextAdded(article)
                          \/ article.hash_id \in loaded_hashes)
                /\ SameTripleAdded(article) => IsDuplicate(article))
    /\ [](\A article \in checked : was_duplicate => IsDuplicate(article))
    /\ [][\/ NewCollector
          \/ collected_hashes \subseteq collected_hashes']_vars

\* as in test_duplicate_detection: an article was added and a second one
\* with the same title, URL and source but another content is a duplicate
C19_Witness ==
    \E article \in checked :
        /\ was_duplicate
        /\ Triple(article) \in added
        /\ loaded_hashes = {}
        /\ collected_hashes =
               {NewsArticle(article.title, article.url, <<"x">>,
                            article.source).hash_id}
        /\ article.content = <<"y">>

\* an article is a duplicate of one with another title and another URL
C19_OtherTripleReached ==
    \E article \in checked :
        /\ was_duplicate
        /\ Triple(article) \notin added
        /\ loaded_hashes = {}

(***************************************************************************)
(* Claims about the content extraction                                     *)
(***************************************************************************)
PartsOf(kind) == {i \in 1..Len(content_parts) : content_parts[i].kind = kind}

RulesUsed == {content_parts[i].rule : i \in 1..Len(content_parts)}

PrimaryYields(r) ==
    \E i \in 1..Len(primary_nodes[r]) :
        primary_nodes[r][i] > PrimaryThreshold(scraper)

GenericYields(r) ==
    \E i \in 1..Len(generic_nodes[r]) :
        generic_nodes[r][i] > GenericThreshold(scraper)

Extracted == xpc = "done" /\ primary_nodes # << >>

C21_GenericFirstReached ==
    /\ Extracted
    /\ \A r \in 1..NPrimary : ~PrimaryYields(r)
    /\ GenericYields(1) /\ GenericYields(2)
    /\ RulesUsed = {1}
    /\ PartsOf("primary") = {}

(***************************************************************************)
(* Claims about the title key                                              *)
(***************************************************************************)
\* two titles that agree, ignoring case, on their first 50 characters and
\* differ after them
AgreeOnPrefixOnly(t1, t2) ==
    /\ Len(t1) > 50 /\ Len(t2) > 50
    /\ LowerStr(SubSeq(t1, 1, 50)) = LowerStr(SubSeq(t2, 1, 50))
    /\ LowerStr(t1) # LowerStr(t2)

PrefixPairs ==
    {pr \in (DOMAIN dd_posts) \X (DOMAIN dd_posts) :
        /\ pr[1] < pr[2]
        /\ dd_posts[pr[1]].url # dd_posts[pr[2]].url
        /\ AgreeOnPrefixOnly(dd_posts[pr[1]].title, dd_posts[pr[2]].title)}

KeptPosts == Range(dd_unique)

\* C22 as stated: in every deduplicator two candidates with different URLs
\* whose titles agree on the prefix and differ afterwards are duplicates
C22_Original ==
    dd_pc = "done" =>
        \A pr \in PrefixPairs : ~(pr[1] \in KeptPosts /\ pr[2] \in KeptPosts)

\* C22: in the loop of collect_all_ai_news and in the _remove_duplicates of
\* scraping_x_collector.py the title key is the case-folded prefix of 50
\* characters and at most one of two such candidates is in the output; the
\* _remove_duplicates of AdvancedScraper keys on the whole title, case-folded
\* and stripped, and keeps both when they are the whole input
C22_PrefixKeyOutsideAdvancedScraper ==
    dd_pc = "done" =>
        /\ dd_variant \in {"integrated", "x_posts"} =>
              \A pr \in PrefixPairs :
                  ~(pr[1] \in KeptPosts /\ pr[2] \in KeptPosts)
        /\ (dd_variant = "advanced" /\ Len(dd_posts) = 2 /\ PrefixPairs # {}) =>
              dd_unique = <<1, 2>>

\* two such candidates went through the prefix-keyed loop of the X
\* collector: only the first is left
C22_Witness ==
    /\ dd_pc = "done"
    /\ dd_variant = "x_posts"
    /\ Len(dd_posts) = 2
    /\ PrefixPairs = {<<1, 2>>}
    /\ dd_unique = <<1>>

\* the same two candidates went through AdvancedScraper._remove_duplicates
C22_AdvancedKeepsBoth ==
    /\ dd_pc = "done"
    /\ dd_variant = "advanced"
    /\ PrefixPairs = {<<1, 2>>}
    /\ dd_unique = <<1, 2>>

(***************************************************************************)
(* Claims about the per-source cap and the order of the merged list        *)
(***************************************************************************)
\* C23 as stated: _collect_from_source returns at most max_articles
\* candidates, cached and fetched together
C23_Original ==
    lk_pc \in {"gathered", "merged"} => Len(lk_articles) <= lk_max

\* the links the loop reaches: among the first 2 * max_articles, those
\* before which fewer than max_articles tasks were created
Reached ==
    {i \in DOMAIN lk_links :
        /\ i <= 2 * lk_max
        /\ Cardinality({j \in 1..(i - 1) : lk_links[j] \in {"fetch", "fail"}})
              < lk_max}

RECURSIVE Ascending(_)
Ascending(S) ==
    IF S = {} THEN << >>
    ELSE LET m == CHOOSE x \in S : \A y \in S : x <= y
         IN  <<m>> \o Ascending(S \ {m})

\* C24 as stated: the merged list is in registration order and, within the
\* source, in the order of the links on the entry page
C24_Original ==
    lk_pc = "merged" =>
        /\ \A i, j \in DOMAIN lk_merged :
              i < j => lk_merged[i].src <= lk_merged[j].src
        /\ \A i, j \in DOMAIN lk_articles :
              i < j => lk_articles[i] < lk_articles[j]

\* C24: the merged list is in registration order whatever the order in which
\* the source tasks and the article tasks end; within the source the
\* candidates served from the cache come first, in page order, and the
\* fetched ones follow, in page order
C24_CachedFirstThenFetched ==
    /\ lk_pc \in {"gathered", "merged"} =>
          lk_articles =
              Ascending({i \in Reached : lk_links[i] = "cached"})
                 \o Ascending({i \in Reached : lk_links[i] = "fetch"})
    /\ lk_pc = "merged" =>
          /\ \A i, j \in DOMAIN lk_merged :
                i < j => lk_merged[i].src <= lk_merged[j].src
          /\ [i \in DOMAIN lk_articles |-> lk_articles[i]] =
                [i \in DOMAIN lk_articles |->
                    lk_merged[i + IF lk_reg = 1 THEN 0
                                  ELSE Len(lk_other.list)].link]
          /\ Len(lk_merged) = Len(lk_articles) + Len(lk_other.list)

\* the second link was served from the cache and comes before the first,
\* which was fetched; the source is registered second and its task ended
\* before the other's
C24_Witness ==
    /\ lk_pc = "merged"
    /\ lk_reg = 2
    /\ lk_max = 2
    /\ Len(lk_links) >= 3
    /\ lk_links[1] = "fetch" /\ lk_links[2] = "cached" /\ lk_links[3] = "fetch"
    /\ lk_articles = <<2, 1, 3>>
    /\ lk_other.list = <<1, 2>>
    /\ Len(lk_merged) = 5
    /\ lk_merged[3] = [src |-> 2, link |-> 2]

(***************************************************************************)
(* Claims about what is written to the cache                               *)
(***************************************************************************)
FetchedEnough == wr_fetched /\ wr_len >= 100

EntryWritten == wr_files[wr_url] # wr_before[wr_url] \/ wr_save = "saved"

\* C25 as stated: an entry is written iff the fetch succeeded and the
\* content has at least 100 characters; every entry holds such a content; a
\* failed fetch or a short content leaves the cache as it was, no candidate
C25_Original ==
    wr_pc = "done" =>
        /\ wr_save = "saved" <=> FetchedEnough
        /\ \A u \in URLs :
              wr_files[u].state # "absent" =>
                  wr_files[u].state = "whole" /\ wr_files[u].len >= 100
        /\ ~FetchedEnough => wr_files = wr_before /\ ~wr_candidate

\* C25: an entry is written only if the fetch succeeded and the content has
\* at least 100 characters, and then it is written unless the write itself
\* fails, while the candidate is returned either way; every complete entry
\* holds a content of at least 100 characters; a failed fetch or a short
\* content leaves the cache as it was and gives no candidate
C25_WrittenOnlyIfFetchedEnough ==
    /\ \A u \in URLs :
          wr_files[u].state = "whole" => wr_files[u].len >= 100
    /\ wr_pc = "done" =>
          /\ EntryWritten => FetchedEnough
          /\ FetchedEnough =>
                /\ wr_candidate
                /\ wr_save # "none"
                /\ wr_save = "saved" =>
                      wr_files[wr_url] = [state |-> "whole", len |-> wr_len]
                /\ wr_save = "open_failed" => wr_files = wr_before
                /\ wr_save = "dump_failed" =>
                      wr_files[wr_url].state = "partial"
                /\ \A u \in URLs \ {wr_url} : wr_files[u] = wr_before[u]
          /\ ~FetchedEnough =>
                wr_files = wr_before /\ ~wr_candidate /\ wr_save = "none"

\* a content of exactly 100 characters was written over an older entry
C25_Witness ==
    /\ wr_pc = "done"
    /\ wr_fetched /\ wr_len = 100
    /\ wr_save = "saved"
    /\ wr_before[wr_url] = [state |-> "whole", len |-> 101]
    /\ wr_files[wr_url] = [state |-> "whole", len |-> 100]
    /\ wr_candidate

\* a candidate was returned though nothing was written
C25_UnsavedReached ==
    /\ wr_pc = "done"
    /\ FetchedEnough
    /\ wr_save = "open_failed"
    /\ wr_candidate
    /\ wr_files[wr_url].state = "absent"

\* a content of 99 characters: nothing written, no candidate
C25_ShortReached ==
    /\ wr_pc = "done"
    /\ wr_fetched /\ wr_len = 99
    /\ ~wr_candidate
    /\ wr_files = wr_before

(***************************************************************************)
(* Claims about collection methods that raise                              *)
(***************************************************************************)
ReturnedPosts ==
    UNION {Range(xm_lists[m]) : m \in {k \in DOMAIN xm_got : xm_got[k] = "returned"}}

RECURSIVE ConcatLists(_, _)
ConcatLists(lists, n) ==
    IF n = 0 THEN << >> ELSE ConcatLists(lists, n - 1) \o lists[n]

\* C26: whichever methods raise, the call does not raise; the methods are
\* invoked in their order, none is left out but for the break of
\* collect_x_posts once max_posts posts are gathered; the result holds only
\* posts that methods returned, and in collect_all_articles it is the lists
\* of the methods that returned, one after the other
C26_RaisingMethodsAreSkipped ==
    /\ xm_pc # "raised"
    /\ xm_invoked = [i \in 1..Len(xm_invoked) |-> i]
    /\ xm_pc = "done" =>
          /\ Len(xm_invoked) < MethodsOf(xm_kind) =>
                xm_kind = "x_posts" /\ Len(xm_all_posts) >= xm_max
          /\ Range(xm_final) \subseteq ReturnedPosts
          /\ xm_kind = "integrated" =>
                xm_final = ConcatLists(xm_lists, MethodsOf(xm_kind))
          /\ xm_kind = "x_posts" =>
                /\ Len(xm_final) <= xm_max
                /\ \A x \in ReturnedPosts :
                      (x.score >= 10 /\ Len(xm_final) < xm_max) =>
                          \E y \in Range(xm_final) :
                              y.id = x.id \/ y.text = x.text

\* collect_x_posts: the first two methods raised, the third was invoked and
\* its posts are the result
C26_Witness ==
    /\ xm_pc = "done"
    /\ xm_kind = "x_posts"
    /\ xm_max = 2
    /\ xm_got = <<"raised", "raised", "returned">>
    /\ Len(xm_final) = 2
    /\ Range(xm_final) = Range(xm_lists[3])

\* collect_all_articles: the first method raised, the second was invoked
C26_IntegratedReached ==
    /\ xm_pc = "done"
    /\ xm_kind = "integrated"
    /\ xm_got = <<"raised", "returned">>
    /\ xm_final = xm_lists[2]
    /\ xm_final # << >>

(***************************************************************************)
(* Claims about the date of the daily record and the size of the digest    *)
(***************************************************************************)
\* the step in which run r gets a receipt from create_post
Confirmed(r) ==
    /\ rpc[r] = "posting"
    /\ rpc'[r] = "done"
    /\ post_result'[r] = "receipt"

\* C27: the daily record a run writes after a confirmed publication is the
\* record of the date whose count the run read at its start
C27_Original ==
    [][\A r \in Runs :
          Confirmed(r) =>
              /\ \E f \in daily_posts' : f.date = start_day[r]
              /\ \A f \in daily_posts' \ daily_posts : f.date = start_day[r]]_vars

\* C28: the digest of a run that is about to call create_post holds at least
\* 3 processed articles
C28_Original ==
    \A r \in Runs : rpc[r] = "posting" => n_processed[r] >= MinArticles

(***************************************************************************)
(* Claims about the article history of the scheduler                       *)
(***************************************************************************)
\* C29: what the 09:00 job accepted and recorded is among the articles the
\* 10:00 workflow of the day handed to posting
C29_Original ==
    (hs_enabled /\ hs_pc = "midnight") => hs_accepted \subseteq hs_posted

SameTitleOrURL(x, y) == x.title = y.title \/ x.url = y.url

\* no article of the last call's result repeats an earlier one of the result
NoRepeatWithinCall ==
    \A i, j \in DOMAIN hs_out : i < j => ~SameTitleOrURL(hs_out[i], hs_out[j])

\* no article of the last call's result repeats one returned by a call made
\* less than history_days before and after time since
NoRepeatAcrossCalls(since) ==
    \A i \in DOMAIN hs_out : \A r \in hs_prev :
        (r.at > since /\ hs_at - r.at < hs_days * HoursPerDay) =>
            ~SameTitleOrURL(hs_out[i], r)

C30_ExpiredReached ==
    /\ hs_enabled
    /\ hs_last_failure = -1
    /\ \E r \in hs_prev : \E i \in DOMAIN hs_out :
          /\ hs_at - r.at >= hs_days * HoursPerDay
          /\ hs_out[i].title = r.title /\ hs_out[i].url = r.url

====
